---- MODULE Spec2Model ----
(***************************************************************************)
(* Model of the liquid handler host controller (src/main.py): the device   *)
(* protocol engine (_send_lines_with_ok, reader, poller, pause / abort),   *)
(* the sequence workers started by the operator surface and the tip        *)
(* inventory they commit to, the pipette volume and head module they      *)
(* track, the position lookup and the batch loop of a transfer line, the   *)
(* plan of a batch wash group, the interpolation of rack coordinates and   *)
(* the command lists of a transfer with their positioning mode.            *)
(*                                                                         *)
(* A worker thread executes a program: the list of the calls its run_seq   *)
(* makes, in order (send a command list, look for a fresh tip, mark a tip  *)
(* consumed).  A command list is modelled by its kind and its number of    *)
(* lines; the text of a line plays no part in the protocol, except for the *)
(* class of its timeout, which is a duration and is not modelled.          *)
(*                                                                         *)
(* Time is abstracted: a delay (the 5 s sleep of _emergency_park, the 2 s  *)
(* idle debounce of the poller) can elapse only while every worker is      *)
(* blocked (waiting for an acknowledgement, or spinning in the pause       *)
(* loop), because every other step of a worker takes far less.             *)
(***************************************************************************)
EXTENDS Integers, Sequences, FiniteSets, TLC

\* ---------------------------------------------------------------- bounds
MaxLines == 2         \* lines of a command list beyond this are cut off
MaxLinesAbort == 1    \* the same, in the specification with the recovery workers
MaxUI == 2            \* operator actions (button presses) in one behaviour
MaxPending == 2       \* poll / raw lines are not written to a fuller device queue
NumTipRows == 2       \* rows of the tip rack
NumTipCols == 2       \* columns of the tip rack
MaxTaskLines == 2     \* lines (rows) of one transfer Task
MaxFaults == 1        \* acknowledgement timeouts and write errors in one behaviour
MaxHundreds == 20     \* a transfer line asks for at most this many hundreds of microlitres
MaxLinesMode == 3     \* lines of a command list where the positioning mode is followed
MaxWashTasks == 2     \* lines of one batch wash group
MaxWashFours == 3     \* a line asks for at most this many times 400 uL of wash

Min(a, b) == IF a < b THEN a ELSE b

\* ---------------------------------------------------------------- threads
\* "task": the run_seq of an automated Task; "manual": the run_seq of a manual
\* action; "eject", "park": the two run_seq started by _emergency_park;
\* "press": the run_seq of a manual action started while that of an earlier
\* manual action still runs.
Threads == {"task", "manual", "eject", "park", "press"}

TipKeys == (1..NumTipRows) \X (1..NumTipCols)
NoTip == <<0, 0>>

VARIABLES
    pc,                   \* per thread: position in _send_lines_with_ok / run_seq
    prog,                 \* per thread: the calls of its run_seq
    ip,                   \* per thread: index of the current call
    idx,                  \* per thread: index of the current line of the list
    tipKey,               \* per thread: tip_key / target_tip
    outcome,              \* per thread: how the last command list ended
    is_sequence_running,
    is_paused,
    is_aborted,
    abort_btn,            \* the abort button is enabled
    ok_event,
    idle,                 \* time.time() - last_action_time > IDLE_TIMEOUT_BEFORE_POLL
    pending,              \* lines written to the serial link, unanswered so far
    rec,                  \* the _emergency_park worker
    tip_inventory,
    tipsVar,              \* modules["TIPS"]["var"]
    current_pipette_volume,
    last_known_module,
    ui,                   \* operator actions so far
    lineCap,              \* lines of a command list beyond this are cut off
    faults,               \* timeouts and write errors so far
    \* history variables
    hadTimeout,           \* per thread: a line of this run timed out
    abortSeen,            \* per thread: abort_sequence was invoked after the run's first line
    wrote,                \* per thread: a line was written in this run
    sent,                 \* per thread: indices written of the current list
    wroteInPause,         \* per thread: lines written since is_paused was last set
    noTipSeen,            \* per thread: a tip search of this run found no tip
    noTipAtStart,         \* per thread: no tip was fresh when the run was submitted
    ackSet,               \* per thread: ok_event was set since the thread last cleared it
    pickEnd,              \* per thread: how the last pick list ended
    \* the batch loop of a transfer line (volumes in units of 0.0001 uL)
    total_vol,
    is_volatile,
    remaining_vol,
    batches,              \* the batch_vol passed to _perform_single_transfer so far
    \* the plan of _perform_batch_wash_distribution (volumes in units of 0.0001 uL)
    wash_vols,            \* t["wash_vol"] of tasks_for_this_wash
    remaining,            \* per plan entry: wash still owed
    in_tip,
    wi,                   \* index of the plan entry the for loop is at
    wpc,                  \* position in _perform_batch_wash_distribution
    cycle_disp,           \* the disp_ul of the current load, in order
    disp_sum,             \* sum of all disp_ul so far
    max_liquid_ul,        \* the load capacity passed to the call
    got,                  \* per plan entry: the sum of its disp_ul so far
    cycle_idx,            \* the plan entries dispensed to in the current load, in order
    \* one position lookup on a rack (lengths in units of 0.0001 mm)
    grid,                 \* num_cols, num_rows and the two corner offsets of the rack
    well,                 \* col_idx, row_idx of the key
    resolved,             \* <<abs_x, abs_y>> once the key is resolved
    \* the command lists of one transfer or one move (heights in units of 0.1 mm)
    xfer,                 \* start_module, src_mod, dest_mod, is_volatile
    lists,                \* the command lists passed to _send_lines_with_ok so far
    xpc,                  \* position in _perform_single_transfer
    put,                  \* per thread: the events its last step put on rx_queue
    tipOn,                \* a pick list was acknowledged in full, no eject line written since
    asked_vol,            \* the volume the accepted pipette requests add up to
    relMode,              \* the last positioning-mode command written is G91
    \* the serial reader
    rx_line,              \* the bytes of the line split off the buffer, as tokens
    rx_pc,                \* "wait" for a line, or "line" once one is split off
    rx_queue,             \* the messages put on rx_queue and not yet logged
    handled,              \* what _reader_loop did with the last line
    \* one call of a rack's coordinate function
    rack,                 \* the rack whose function is called
    rack_key,             \* the key passed: a row letter and a column suffix, or a name
    answer,               \* what the call returned, or that it raised
    \* one wash-source group of a wash cycle
    wgroup,               \* its lines, the wash volume, the modules, is a tip fresh
    wlists,               \* the command lists sent for it so far, with their origin
    wcpc                  \* position in the group's branch of run_seq

vars == <<pc, prog, ip, idx, tipKey, outcome, is_sequence_running, is_paused,
          is_aborted, abort_btn, ok_event, idle, pending, rec,
          tip_inventory, tipsVar, ui, lineCap, faults, hadTimeout, abortSeen, wrote, sent,
          wroteInPause, noTipSeen, noTipAtStart, ackSet, pickEnd, put, tipOn,
          current_pipette_volume, last_known_module,
          total_vol, is_volatile, remaining_vol, batches,
          wash_vols, remaining, in_tip, wi, wpc, cycle_disp, disp_sum,
          max_liquid_ul, got, cycle_idx,
          grid, well, resolved, xfer, lists, xpc, asked_vol, relMode,
          rx_line, rx_pc, rx_queue, handled, rack, rack_key, answer,
          wgroup, wlists, wcpc>>

thr == <<pc, prog, ip, idx, tipKey, outcome>>
flags == <<is_sequence_running, is_paused, is_aborted, abort_btn>>
tips == <<tip_inventory, tipsVar>>
hist == <<hadTimeout, abortSeen, wrote, sent, wroteInPause,
          noTipSeen, noTipAtStart, ackSet, pickEnd, tipOn>>
head == <<current_pipette_volume, last_known_module>>
split == <<total_vol, is_volatile, remaining_vol, batches>>
wash == <<wash_vols, remaining, in_tip, wi, wpc, cycle_disp, disp_sum,
          max_liquid_ul, got, cycle_idx>>
lookup == <<grid, well, resolved>>
leg == <<xfer, lists, xpc>>
reader == <<rx_line, rx_pc, rx_queue, handled>>
rackcall == <<rack, rack_key, answer>>
washcycle == <<wgroup, wlists, wcpc>>
later == <<reader, rackcall, washcycle>>
aux == <<wash, lookup, leg, later>>

\* ---------------------------------------------------------------- programs
\* A call of a run_seq.  vol and mod are the assignments that follow the call
\* in the run_seq: self.current_pipette_volume = v for vol = {v} (NoVol: none)
\* and self.update_last_module(mod) (NoMod: none).
\* target is the set of logical pipette volumes the E moves of a command list
\* go to, where the run_seq computes them from the Task's volume; pos is the
\* set of positions a get_coords_from_combo call resolves.
NoVol == {}
NoMod == ""
CallRec(op, kind, n, skip, vol, mod, target, pos) ==
    [op |-> op, kind |-> kind, n |-> n, skip |-> skip, vol |-> vol, mod |-> mod,
     target |-> target, pos |-> pos]
Send(kind, n) == CallRec("send", kind, n, 0, NoVol, NoMod, {}, {})
SendThen(kind, n, vol, mod) == CallRec("send", kind, n, 0, vol, mod, {}, {})
\* A list whose E moves are computed from the Task's volume.
SendTo(kind, n, vol, mod, target) == CallRec("send", kind, n, 0, vol, mod, target, {})
\* get_coords_from_combo for the positions in pos.
Resolve(pos) == CallRec("resolve", "", 0, 0, NoVol, NoMod, {}, pos)
\* skip = 0: the run_seq returns when no tip is found; skip = k: the function
\* that searched returns and its caller goes on k calls further.
Find(skip) == CallRec("find", "", 0, skip, NoVol, NoMod, {}, {})
\* refresh: the run_seq also schedules update_available_tips_combo.
Consume(refresh) ==
    CallRec("consume", IF refresh THEN "refresh" ELSE "", 0, 0, NoVol, NoMod, {}, {})
\* self.tip_inventory[tip_key] = False; self.update_last_module("TIPS")
ConsumeThen(mod) == CallRec("consume", "", 0, 0, NoVol, mod, {}, {})

\* PIPETTE_CONFIG, in microlitres.
DEFAULT_TARGET_UL == 200
AIR_GAP_UL == 200
MIN_PIPETTE_VOL == 100
MAX_PIPETTE_VOL == 1000

EjectLines == 9
ParkLines == 4
\* _get_smart_travel_gcode from another module: G90, Z travel, XY, Z safe.
SmartTravelLines == 4
PickLines == SmartTravelLines + 2
WaitForFinish == Send("M400", 1)

JogProg == <<Send("jog", 3), WaitForFinish>>
\* self._wait_for_finish(); self.update_last_module(mod)
WaitThenModule(mod) == SendThen("M400", 1, NoVol, mod)
\* self._send_lines_with_ok(self._get_eject_tip_commands()); update_last_module("EJECT")
EjectCall == SendThen("eject", EjectLines, NoVol, "EJECT")

PickTipProg == <<Send("pick", PickLines), WaitThenModule("TIPS"), Consume(TRUE)>>
EjectTipProg == <<Send("ejectpark", EjectLines + ParkLines), WaitThenModule("PARK")>>
ParkHeadProg == <<Send("park", ParkLines), WaitThenModule("PARK")>>

\* _perform_single_transfer, standard liquid, one batch: load at the source,
\* travel to the destination, dispense.
SingleTransferProg ==
    <<Send("load", 1 + 3 + 1 + 1), SendThen("travel", 4, NoVol, "DEST"),
      SendThen("dispense", 1 + 3, {AIR_GAP_UL}, NoMod)>>

\* Phase 1 of transfer_liquid_sequence.run_seq for one line.
TransferLineProg ==
    <<Find(0), Send("pick", PickLines), ConsumeThen("TIPS")>> \o SingleTransferProg
        \o <<EjectCall>>

\* _perform_wash_cycle called with start_module = "EJECT".
WashCycleProg ==
    <<Find(6), Send("pick", PickLines), ConsumeThen("TIPS"),
      SendThen("washload", 1 + SmartTravelLines + 3, NoVol, "WASH"),
      SendThen("washsrc", SmartTravelLines + 2 + 1 + 4 + 2, NoVol, "SRC"),
      SendThen("washdest", SmartTravelLines + 4, NoVol, "DEST"),
      EjectCall>>

\* _perform_wash_mix_and_transfer
MixTransferProg ==
    <<SendThen("mixxfer", 1 + SmartTravelLines + 1 + 4 + 2 + SmartTravelLines + 4,
               {AIR_GAP_UL}, "DEST")>>

RECURSIVE RecoveryProg(_)
RecoveryProg(n) ==
    IF n = 0 THEN <<>>
    ELSE <<Find(0), Send("pick", PickLines), ConsumeThen("TIPS")>> \o MixTransferProg
            \o <<EjectCall>> \o RecoveryProg(n - 1)

\* A wash-source group of two or more lines: batch distribution with one load,
\* recovery of the last line with the distribution tip, then the other lines.
BatchWashProg(n) ==
    <<Find(0), Send("pick", PickLines), ConsumeThen("TIPS"),
      Send("distribute", 1 + SmartTravelLines + 3 + n * (SmartTravelLines + 3)),
      SendThen("egap", 1, {AIR_GAP_UL}, NoMod)>>
        \o MixTransferProg \o <<EjectCall>> \o RecoveryProg(n - 1)

\* A transfer line of the model: does it wash (wash_vol > 0 and wash_times = 1),
\* and from which wash source.
WashSources == {1, 2}
TaskLine == [wash : BOOLEAN, wsrc : WashSources]
TaskLists(S) == UNION {[1..n -> S] : n \in 1..MaxTaskLines}

\* _ordered_group_by on the wash source: the sources in order of first
\* appearance, each with the number of lines that use it.
RECURSIVE OrderedKeys(_, _)
OrderedKeys(s, seen) ==
    IF s = <<>> THEN <<>>
    ELSE IF Head(s).wsrc \in seen THEN OrderedKeys(Tail(s), seen)
         ELSE <<Head(s).wsrc>> \o OrderedKeys(Tail(s), seen \cup {Head(s).wsrc})

GroupSize(s, k) == Cardinality({i \in DOMAIN s : s[i].wsrc = k})

RECURSIVE Phase1Prog(_)
Phase1Prog(n) == IF n = 0 THEN <<>> ELSE TransferLineProg \o Phase1Prog(n - 1)

RECURSIVE WashGroupsProg(_, _)
WashGroupsProg(keys, washTasks) ==
    IF keys = <<>> THEN <<>>
    ELSE (IF GroupSize(washTasks, Head(keys)) = 1
             THEN WashCycleProg
             ELSE BatchWashProg(GroupSize(washTasks, Head(keys))))
         \o WashGroupsProg(Tail(keys), washTasks)

IsWashTask(l) == l.wash

TransferProg(tasks) ==
    LET washTasks == SelectSeq(tasks, IsWashTask)
    IN  <<EjectCall>>
            \o Phase1Prog(Len(tasks))
            \o WashGroupsProg(OrderedKeys(washTasks, {}), washTasks)
            \o <<SendThen("park", ParkLines, NoVol, "PARK")>>

\* ---------------------------------------------------------------- command lines
\* What the lines of a command list are to the positioning mode of the
\* device: "G90", "G91", "abs" (a move to absolute target coordinates),
\* "rel" (a move by relative distances), "E" (a pipette move).
\*   jog        send_jog: G91, the jog, G90
\*   calmove    _calibrate_module_position: G0 Z, G0 X Y, G0 Z
\*   move       _get_smart_travel_gcode between two modules: G90, Z, X Y, Z
\*   load       _perform_single_transfer, cmds: E, Z, X Y, Z, Z, E
\*   vload      the same for a volatile liquid: four mixing moves more
\*   travel     cmds_std: Z, Z, X Y, Z
\*   vtravel    volatile_cmds: G91, three compensated moves, G90
\*   dispense   cmds_disp (four lines): Z, E, Z, E
\*   aspirate, dispense   smart_pipette_sequence (five lines): G90, Z, E, Z, M18 E
\*   pipette    manual_pipette_move: G90, E, M18 E
\*   vdispense  cmds_disp, volatile: G91, the compensated move, G90, E, Z, E
LineTypes(kind, n) ==
    CASE kind = "jog" -> <<"G91", "rel", "G90">>
      [] kind = "calmove" -> <<"abs", "abs", "abs">>
      [] kind = "move" -> <<"G90", "abs", "abs", "abs">>
      [] kind = "load" -> <<"E", "abs", "abs", "abs", "abs", "E">>
      [] kind = "vload" -> <<"E", "abs", "abs", "abs", "abs", "E", "E", "E", "E", "E">>
      [] kind = "travel" -> <<"abs", "abs", "abs", "abs">>
      [] kind = "vtravel" -> <<"G91", "rel", "rel", "rel", "G90">>
      [] kind = "dispense" /\ n = 4 -> <<"abs", "E", "abs", "E">>
      [] kind \in {"aspirate", "dispense"} /\ n = 5 -> <<"G90", "abs", "E", "abs", "other">>
      [] kind = "pipette" -> <<"G90", "E", "other">>
      [] kind = "vdispense" -> <<"G91", "rel", "G90", "E", "abs", "E">>
      [] OTHER -> <<>>

LineType(c, i) ==
    IF i \in DOMAIN LineTypes(c.kind, c.n) THEN LineTypes(c.kind, c.n)[i] ELSE "other"

\* ---------------------------------------------------------------- travel legs
SMALL_VIAL_MODULES == {"4ML", "FILTER_EPPI", "EPPI", "HPLC", "HPLC_INSERT", "SCREWCAP"}

\* The modules a leg starts or ends at.
LegModules == {"PLATE", "4ML", "EPPI"}

\* Z_SAFE, Z_ASPIRATE, Z_DISPENSE of the module's configuration
Z_SAFE(m) ==
    CASE m = "PLATE" -> 1100 [] m = "WASH" -> 1950 [] m = "TIPS" -> 1850 [] OTHER -> 1216
Z_ASPIRATE(m) == CASE m = "PLATE" -> 773 [] m = "4ML" -> 800 [] m = "WASH" -> 1050 [] OTHER -> 720
Z_DISPENSE(m) ==
    CASE m = "PLATE" -> 973 [] m = "4ML" -> 1000 [] m = "WASH" -> 1700 [] OTHER -> 1050

PIN_Z == 1328
GLOBAL_SAFE_Z_OFFSET == 372

\* resolve_coords(0, 0, rel_z)[2]
AbsZ(rel_z) == PIN_Z + rel_z

\* travel_z: the 4 mL rack's safe plane between two small vial modules, the
\* global safe Z otherwise
TravelZ(current_mod, target_module) ==
    IF current_mod \in SMALL_VIAL_MODULES /\ target_module \in SMALL_VIAL_MODULES
    THEN AbsZ(Z_SAFE("4ML")) ELSE AbsZ(GLOBAL_SAFE_Z_OFFSET)

\* Command lines: a G0 to an absolute Z, a G0 to absolute X Y, a G1 of the
\* pipette axis, G90, G91, and a G1 by relative distances.
MoveZ(z) == [cmd |-> "G0", axis |-> "Z", z |-> z, rel |-> FALSE]
MoveXY == [cmd |-> "G0", axis |-> "XY", z |-> 0, rel |-> FALSE]
PipE == [cmd |-> "G1", axis |-> "E", z |-> 0, rel |-> FALSE]
\* a G1 of the pipette axis to the position of a logical volume
PipTo(v) == [cmd |-> "G1", axis |-> "E", z |-> 0, rel |-> FALSE, e |-> v]
G90Line == [cmd |-> "G90", axis |-> "", z |-> 0, rel |-> FALSE]
G91Line == [cmd |-> "G91", axis |-> "", z |-> 0, rel |-> FALSE]
RelMove(axis, dz) == [cmd |-> "G1", axis |-> axis, z |-> dz, rel |-> TRUE]

\* _get_smart_travel_gcode
GetSmartTravelGcode(target_module, start_module) ==
    <<G90Line>> \o
    IF start_module = target_module
    THEN <<MoveZ(AbsZ(Z_SAFE(target_module))), MoveXY>>
    ELSE <<MoveZ(TravelZ(start_module, target_module)), MoveXY,
           MoveZ(AbsZ(Z_SAFE(target_module)))>>

\* _perform_single_transfer, cmds: to the source and load
LoadCmds(x) ==
    <<PipE>> \o
    (IF x.start_module = x.src_mod
     THEN <<MoveZ(AbsZ(Z_SAFE(x.src_mod))), MoveXY>>
     ELSE <<MoveZ(TravelZ(x.start_module, x.src_mod)), MoveXY,
            MoveZ(AbsZ(Z_SAFE(x.src_mod)))>>) \o
    <<MoveZ(AbsZ(Z_ASPIRATE(x.src_mod)))>> \o
    (IF x.is_volatile
     THEN <<PipTo(AIR_GAP_UL + 500), PipTo(AIR_GAP_UL),
            PipTo(AIR_GAP_UL + 500), PipTo(AIR_GAP_UL)>>
     ELSE <<>>) \o
    <<PipE>>

\* A variant of the volatile travel list that does not end with G90.
TravelCmdsOpen(x) ==
    <<G91Line, RelMove("Z", 0), RelMove("XY", 0), RelMove("Z", 0)>>

\* volatile_cmds or cmds_std: from the source to the destination
TravelCmds(x) ==
    IF x.is_volatile
    THEN <<G91Line,
           RelMove("Z", TravelZ(x.src_mod, x.dest_mod) - AbsZ(Z_ASPIRATE(x.src_mod))),
           RelMove("XY", 0),
           RelMove("Z", AbsZ(Z_SAFE(x.dest_mod)) - TravelZ(x.src_mod, x.dest_mod)),
           G90Line>>
    ELSE <<MoveZ(AbsZ(Z_SAFE(x.src_mod))), MoveZ(TravelZ(x.src_mod, x.dest_mod)), MoveXY,
           MoveZ(AbsZ(Z_SAFE(x.dest_mod)))>>

\* cmds_disp: dispense, blow out, back to the air gap
DispCmds(x) ==
    (IF x.is_volatile
     THEN <<G91Line,
            RelMove("Z", AbsZ(Z_DISPENSE(x.dest_mod)) - AbsZ(Z_SAFE(x.dest_mod))),
            G90Line>>
     ELSE <<MoveZ(AbsZ(Z_DISPENSE(x.dest_mod)))>>) \o
    <<PipE, MoveZ(AbsZ(Z_SAFE(x.dest_mod))), PipE>>

Transfers ==
    [start_module : LegModules \cup {"TIPS"}, src_mod : LegModules, dest_mod : LegModules,
     is_volatile : BOOLEAN]

\* ---------------------------------------------------------------- positions
\* A combo string "<prefix> <row><col>", e.g. "Falcon A1".
Prefixes == {"Falcon", "PLATE", "Bogus"}
Rows == {"A", "Z"}
Combo == [prefix : Prefixes, row : Rows, col : {1}]

\* _parse_combo_string: the module of a combo string.
ParseComboString(c) ==
    IF c.prefix = "PLATE" THEN "PLATE"
    ELSE IF c.prefix = "Falcon" THEN "FALCON"
    ELSE "Unknown"

plate_rows == {"A", "B", "C", "D", "E", "F", "G", "H"}
falcon_rows == {"A", "B"}

\* get_coords_from_combo: "ok" (the coordinates of the position), "origin" (x, y
\* left at 0.0, or 0.0, 0.0 returned by the module's lookup) or "raise" (the
\* lookup raises ValueError, which ends the thread).
GetCoordsFromCombo(c) ==
    IF ParseComboString(c) = "FALCON"
       THEN IF c.row \notin falcon_rows THEN "origin" ELSE "ok"
    ELSE IF ParseComboString(c) = "PLATE"
       THEN IF c.row \notin plate_rows THEN "raise" ELSE "ok"
    ELSE "origin"

\* _perform ... aliquots_sequence.run_seq for one Task line: volume microlitres
\* from source to ndest destinations of another module, with 100 uL of trash.
TRASH_VOL_UL == 100
AliquotDest == [prefix |-> "Falcon", row |-> "A", col |-> 1]

RECURSIVE AliquotDispenses(_, _, _)
AliquotDispenses(volume, ndest, k) ==
    IF k > ndest THEN <<>>
    ELSE <<Resolve({AliquotDest}),
           SendTo("aliquotdisp", (IF k = 1 THEN SmartTravelLines ELSE SmartTravelLines - 1) + 3,
                  IF k = ndest THEN {AIR_GAP_UL} ELSE NoVol, "DEST",
                  {AIR_GAP_UL + (volume - k * (volume \div ndest)) + TRASH_VOL_UL})>>
         \o AliquotDispenses(volume, ndest, k + 1)

AliquotProg(source, volume, ndest) ==
    <<EjectCall, Find(0), Send("pick", PickLines), ConsumeThen("TIPS"),
      Resolve({source}),
      SendTo("aliquotload", 1 + SmartTravelLines + 3, NoVol, "SRC",
             {AIR_GAP_UL + volume + TRASH_VOL_UL})>>
        \o AliquotDispenses(volume, ndest, 1)
        \o <<EjectCall, SendThen("park", ParkLines, NoVol, "PARK")>>

\* ---------------------------------------------------------------- batches
\* Volumes of the batch loop are counted in units of 0.0001 uL, the tolerance
\* of the loop test "remaining_vol > 0.0001".
UnitsPerUL == 10000
Tolerance == 1
MAX_STD_BATCH == 800 * UnitsPerUL
MAX_VOLATILE_BATCH == 500 * UnitsPerUL

\* A variant of the cap that is the same for both liquid classes.
MaxBatchStd(volatile) == MAX_STD_BATCH

\* max_batch = MAX_VOLATILE_BATCH if is_volatile else MAX_STD_BATCH
MaxBatch(volatile) == IF volatile THEN MAX_VOLATILE_BATCH ELSE MAX_STD_BATCH

\* A variant of the batch volume without the cap.
BatchVolUncapped(rem, max_batch) == rem

\* batch_vol = min(remaining_vol, max_batch)
BatchVol(rem, max_batch) == Min(rem, max_batch)

\* The volumes a transfer line asks for: hundreds of microlitres, exact or
\* with 0.0001 uL or 0.0002 uL more.
LineVolumes == {k * 100 * UnitsPerUL + r : k \in 0..MaxHundreds, r \in {0, 1, 2}}

RECURSIVE SumSeq(_)
SumSeq(q) == IF q = <<>> THEN 0 ELSE Head(q) + SumSeq(Tail(q))

\* ---------------------------------------------------------------- coordinate math
\* Lengths are fixed-point numbers of UnitsPerMM units per millimetre; sums
\* and products with an index are exact, a quotient is rounded to the nearest
\* unit, as a float quotient is rounded to the nearest float.
UnitsPerMM == 10000

\* a / b rounded to the nearest unit (b > 0)
DivRound(a, b) == (2 * a + b) \div (2 * b)

\* CALIBRATION_PIN_CONFIG["PIN_X"], ["PIN_Y"]
PIN_X == 1092 * (UnitsPerMM \div 10)
PIN_Y == 1143 * (UnitsPerMM \div 10)

\* resolve_coords(rel_x, rel_y)
ResolveCoords(rel_x, rel_y) == <<PIN_X + rel_x, PIN_Y + rel_y>>

\* A variant of the step that divides by the count, not by the count less one.
StepPerCount(span, n) == DivRound(span, n)

\* x_step = (end_x - start_x) / (num_cols - 1)
StepOf(span, n) == DivRound(span, n - 1)

\* _get_interpolated_coords
GetInterpolatedCoords(col_idx, row_idx, num_cols, num_rows, start_x, start_y, end_x, end_y) ==
    << IF num_cols > 1 THEN start_x + col_idx * StepOf(end_x - start_x, num_cols)
       ELSE start_x,
       IF num_rows > 1 THEN start_y + row_idx * StepOf(end_y - start_y, num_rows)
       ELSE start_y >>

\* The shapes of the racks: 96 well plate, Falcon rack, wash station, tip
\* rack and the 1x8 racks, as <<num_cols, num_rows>>.
RackShapes == {<<12, 8>>, <<3, 2>>, <<2, 2>>, <<4, 6>>, <<8, 1>>}

\* Corner offsets in tenths of a millimetre: those of the 96 well plate and
\* round ones.
FirstCornersX == {0, 44}
FirstCornersY == {0, 2270}
LastCornersX == {1000, 1035, 1100}
LastCornersY == {700, 1641}

Grids ==
    {[num_cols |-> sh[1], num_rows |-> sh[2],
      start_x |-> sx * (UnitsPerMM \div 10), start_y |-> sy * (UnitsPerMM \div 10),
      end_x |-> ex * (UnitsPerMM \div 10), end_y |-> ey * (UnitsPerMM \div 10)] :
        sh \in RackShapes, sx \in FirstCornersX, sy \in FirstCornersY,
        ex \in LastCornersX, ey \in LastCornersY}

\* get_well_coordinates and its like: interpolate, then resolve.
GetRackCoordinates(g, w) ==
    LET r == GetInterpolatedCoords(w.col_idx, w.row_idx, g.num_cols, g.num_rows,
                                   g.start_x, g.start_y, g.end_x, g.end_y)
    IN  ResolveCoords(r[1], r[2])

\* ---------------------------------------------------------------- batch wash
\* MAX_WASH_LOAD = MAX_PIPETTE_VOL - air_gap_ul, the max_liquid_ul of the call
MAX_WASH_LOAD == (MAX_PIPETTE_VOL - AIR_GAP_UL) * UnitsPerUL

\* The wash_vol a line may ask for.
WashVolumes == {k * 400 * UnitsPerUL + r : k \in 0..MaxWashFours, r \in {0, 1, 2}}

WashGroups == UNION {[1..n -> WashVolumes] : n \in 1..MaxWashTasks}

\* A variant of the plan that keeps every task of the group.
PlanAllTasks(vols) == vols

\* plan: the tasks with need > 0, in order; remaining starts as their needs.
PlanNeeds(vols) == SelectSeq(vols, LAMBDA v : v > 0)

\* load_ul = min(max_liquid_ul, total_remaining)
LoadUl(cap, total_remaining) == Min(cap, total_remaining)

\* A variant that dispenses the whole need whatever the tip holds.
DispUlWholeNeed(rem, tip) == rem

\* disp_ul = min(remaining[i], in_tip)
DispUl(rem, tip) == Min(rem, tip)

\* ---------------------------------------------------------------- tips
\* The order of the keys "A1" < "A2" < ... < "B1" < ...: rows first.
RowMajorLess(a, b) == a[1] < b[1] \/ (a[1] = b[1] /\ a[2] < b[2])

\* A variant of the search with the columns outermost.
RECURSIVE ScanRowsOfCol(_, _, _)
ScanRowsOfCol(inv, c, r) ==
    IF r > NumTipRows THEN NoTip
    ELSE IF inv[<<r, c>>] THEN <<r, c>> ELSE ScanRowsOfCol(inv, c, r + 1)

RECURSIVE ScanColsFirst(_, _)
ScanColsFirst(inv, c) ==
    IF c > NumTipCols THEN NoTip
    ELSE IF ScanRowsOfCol(inv, c, 1) # NoTip THEN ScanRowsOfCol(inv, c, 1)
         ELSE ScanColsFirst(inv, c + 1)

FindColumnMajor(inv) == ScanColsFirst(inv, 1)

\* _find_next_available_tip: for r in tip_rows: for c in tip_cols:
\* if self.tip_inventory[key]: return key; return None after the loops.
RECURSIVE ScanCols(_, _, _)
ScanCols(inv, r, c) ==
    IF c > NumTipCols THEN NoTip
    ELSE IF inv[<<r, c>>] THEN <<r, c>> ELSE ScanCols(inv, r, c + 1)

RECURSIVE ScanRows(_, _)
ScanRows(inv, r) ==
    IF r > NumTipRows THEN NoTip
    ELSE IF ScanCols(inv, r, 1) # NoTip THEN ScanCols(inv, r, 1)
         ELSE ScanRows(inv, r + 1)

FindNextAvailableTip(inv) == ScanRows(inv, 1)

\* update_available_tips_combo: the fresh keys sorted as strings, the first of
\* them set, or "EMPTY" (NoTip).
AvailableTipsCombo(inv) ==
    LET available == {k \in TipKeys : inv[k]}
    IN  IF available = {} THEN NoTip
        ELSE CHOOSE k \in available : \A j \in available : j = k \/ RowMajorLess(k, j)

\* The modules of config_map in smart_pipette_sequence the model moves to.
RackModules == {"PLATE", "FALCON"}
\* Operator inputs of the model: the volume of a manual pipette move and the
\* target volume of a calibration, in microlitres.
Deltas == {300, 900}
CalTargets == {50, 500}
PipetteModes == {"aspirate", "dispense"}

\* ---------------------------------------------------------------- engine
\* An event put on rx_queue: its message and the index of the command line
\* whose text the message holds (NoLine: the message names no command).
NoLine == 0 - 1
Event(msg, line) == [msg |-> msg, line |-> line]

\* The command lists that begin with _get_eject_tip_commands.
EjectKinds == {"eject", "ejectpark"}

Running(t) == pc[t] \notin {"idle", "done"}

\* The thread is blocked for as long as nothing else happens.
Quiescent(t) ==
    \/ ~Running(t)
    \/ pc[t] = "wait" /\ ~ok_event
    \/ pc[t] = "sleep" /\ is_paused /\ ~is_aborted

InFlight == {i \in DOMAIN pending : pending[i].src \in Threads /\ ~pending[i].dead}

\* The thread has written a line that the device has not answered and waits
\* for its acknowledgement.
Awaiting(t) ==
    /\ pc[t] = "wait"
    /\ \E i \in DOMAIN pending : pending[i].src = t /\ ~pending[i].dead

NextCall(t, k) == IF k > Len(prog[t]) THEN "done" ELSE "instr"

InitWith(cap) ==
    /\ lineCap = cap
    /\ pc = [t \in Threads |-> "idle"]
    /\ prog = [t \in Threads |-> <<>>]
    /\ ip = [t \in Threads |-> 0]
    /\ idx = [t \in Threads |-> 0]
    /\ tipKey = [t \in Threads |-> NoTip]
    /\ outcome = [t \in Threads |-> "none"]
    /\ is_sequence_running = FALSE
    /\ is_paused = FALSE
    /\ is_aborted = FALSE
    /\ abort_btn = FALSE
    /\ ok_event = FALSE
    /\ idle = FALSE
    /\ pending = <<>>
    /\ rec = "none"
    /\ tip_inventory = [k \in TipKeys |-> TRUE]
    /\ tipsVar = AvailableTipsCombo([k \in TipKeys |-> TRUE])
    /\ ui = 0
    /\ faults = 0
    /\ hadTimeout = [t \in Threads |-> FALSE]
    /\ abortSeen = [t \in Threads |-> FALSE]
    /\ wrote = [t \in Threads |-> FALSE]
    /\ sent = [t \in Threads |-> <<>>]
    /\ wroteInPause = [t \in Threads |-> 0]
    /\ noTipSeen = [t \in Threads |-> FALSE]
    /\ noTipAtStart = [t \in Threads |-> FALSE]
    /\ ackSet = [t \in Threads |-> FALSE]
    /\ pickEnd = [t \in Threads |-> "none"]
    /\ put = [t \in Threads |-> <<>>]
    /\ tipOn = FALSE
    /\ current_pipette_volume = DEFAULT_TARGET_UL
    /\ last_known_module = "Unknown"
    /\ asked_vol = DEFAULT_TARGET_UL
    /\ relMode = FALSE

\* threading.Thread(target=run_seq).start() for the threads in S, each with its
\* program; tip is the target_tip a manual pick has read.
StartThreads(S, p, tip) ==
    /\ pc' = [t \in Threads |-> IF t \in S THEN "instr" ELSE pc[t]]
    /\ prog' = [t \in Threads |-> IF t \in S THEN p[t] ELSE prog[t]]
    /\ ip' = [t \in Threads |-> IF t \in S THEN 1 ELSE ip[t]]
    /\ idx' = [t \in Threads |-> IF t \in S THEN 0 ELSE idx[t]]
    /\ tipKey' = [t \in Threads |-> IF t \in S THEN tip ELSE tipKey[t]]
    /\ outcome' = [t \in Threads |-> IF t \in S THEN "none" ELSE outcome[t]]
    /\ hadTimeout' = [t \in Threads |-> IF t \in S THEN FALSE ELSE hadTimeout[t]]
    /\ abortSeen' = [t \in Threads |-> IF t \in S THEN FALSE ELSE abortSeen[t]]
    /\ wrote' = [t \in Threads |-> IF t \in S THEN FALSE ELSE wrote[t]]
    /\ sent' = [t \in Threads |-> IF t \in S THEN <<>> ELSE sent[t]]
    /\ noTipSeen' = [t \in Threads |-> IF t \in S THEN FALSE ELSE noTipSeen[t]]
    /\ noTipAtStart' = [t \in Threads |->
            IF t \in S THEN FindNextAvailableTip(tip_inventory) = NoTip
            ELSE noTipAtStart[t]]
    /\ ackSet' = [t \in Threads |-> IF t \in S THEN FALSE ELSE ackSet[t]]
    /\ pickEnd' = [t \in Threads |-> IF t \in S THEN "none" ELSE pickEnd[t]]
    /\ put' = [t \in Threads |-> IF t \in S THEN <<>> ELSE put[t]]
    /\ UNCHANGED wroteInPause

\* ---------------------------------------------------------------- run_seq steps
Call(t) == prog[t][ip[t]]

\* _send_lines_with_ok, entry: is_sequence_running = True, last_action_time = now.
EnterSend(t) ==
    /\ pc[t] = "instr" /\ Call(t).op = "send"
    /\ pc' = [pc EXCEPT ![t] = "chk"]
    /\ idx' = [idx EXCEPT ![t] = 1]
    /\ outcome' = [outcome EXCEPT ![t] = "running"]
    /\ sent' = [sent EXCEPT ![t] = <<>>]
    /\ is_sequence_running' = TRUE
    /\ idle' = FALSE
    /\ put' = [put EXCEPT ![t] = <<>>]
    /\ UNCHANGED <<relMode, asked_vol, aux, split, current_pipette_volume, last_known_module, tipOn, ackSet, pickEnd, lineCap, faults, prog, ip, tipKey, is_paused, is_aborted, abort_btn, ok_event,
                   pending, rec, tips, ui, hadTimeout, abortSeen, wrote,
                   wroteInPause, noTipSeen, noTipAtStart>>

\* tip_key = self._find_next_available_tip(); if not tip_key: ... return
FindTip(t) ==
    /\ pc[t] = "instr" /\ Call(t).op = "find"
    /\ LET key == FindNextAvailableTip(tip_inventory)
           nxt == IF key # NoTip THEN ip[t] + 1
                  ELSE IF Call(t).skip = 0 THEN Len(prog[t]) + 1
                  ELSE ip[t] + 1 + Call(t).skip
       IN  /\ tipKey' = [tipKey EXCEPT ![t] = key]
           /\ noTipSeen' = [noTipSeen EXCEPT ![t] = @ \/ key = NoTip]
           /\ ip' = [ip EXCEPT ![t] = nxt]
           /\ pc' = [pc EXCEPT ![t] = NextCall(t, nxt)]
    /\ put' = [put EXCEPT ![t] = <<>>]
    /\ UNCHANGED <<relMode, asked_vol, aux, split, current_pipette_volume, last_known_module, tipOn, ackSet, pickEnd, lineCap, faults, prog, idx, outcome, flags, ok_event, idle, pending,
                   rec, tips, ui, hadTimeout, abortSeen, wrote, sent, wroteInPause, noTipAtStart>>

\* self.tip_inventory[tip_key] = False, after the pick list was sent.
ConsumeTip(t) ==
    /\ pc[t] = "instr" /\ Call(t).op = "consume"
    /\ tip_inventory' = [tip_inventory EXCEPT ![tipKey[t]] = FALSE]
    /\ tipsVar' = IF Call(t).kind = "refresh"
                     THEN AvailableTipsCombo(tip_inventory') ELSE tipsVar
    /\ last_known_module' = IF Call(t).mod = NoMod THEN last_known_module ELSE Call(t).mod
    /\ ip' = [ip EXCEPT ![t] = @ + 1]
    /\ pc' = [pc EXCEPT ![t] = NextCall(t, ip[t] + 1)]
    /\ put' = [put EXCEPT ![t] = <<>>]
    /\ UNCHANGED <<relMode, asked_vol, aux, split, lineCap, faults, prog, idx, tipKey, outcome, flags, ok_event, idle, pending, rec, ui, hist,
                   current_pipette_volume>>

\* src_mod, src_x, ... = self.get_coords_from_combo(source_str): an exception
\* of the lookup ends the thread; otherwise the run_seq goes on with the
\* coordinates it got.
ResolveStep(t) ==
    /\ pc[t] = "instr" /\ Call(t).op = "resolve"
    /\ LET nxt == IF \E c \in Call(t).pos : GetCoordsFromCombo(c) = "raise"
                     THEN Len(prog[t]) + 1 ELSE ip[t] + 1
       IN  /\ ip' = [ip EXCEPT ![t] = nxt]
           /\ pc' = [pc EXCEPT ![t] = NextCall(t, nxt)]
    /\ put' = [put EXCEPT ![t] = <<>>]
    /\ UNCHANGED <<relMode, asked_vol, aux, split, lineCap, faults, prog, idx, tipKey, outcome, flags, ok_event, idle, pending,
                   rec, tips, ui, hist, head>>

\* A variant of the checks before a line that does not look at is_paused.
AbortCheckOnly(t) ==
    /\ pc[t] = "chk"
    /\ IF is_aborted
          THEN /\ pc' = [pc EXCEPT ![t] = "fin"]
               /\ outcome' = [outcome EXCEPT ![t] = "aborted"]
          ELSE /\ pc' = [pc EXCEPT ![t] = "clr"]
               /\ UNCHANGED outcome
    /\ put' = [put EXCEPT ![t] = IF is_aborted THEN <<Event("Sequence Aborted by User.", NoLine)>> ELSE <<>>]
    /\ UNCHANGED <<relMode, asked_vol, aux, split, current_pipette_volume, last_known_module, lineCap, faults, prog, ip, idx, tipKey, flags, ok_event, idle, pending, rec, tips,
                   ui, hist>>

\* if self.is_aborted: raise SequenceAbortedError
\* while self.is_paused: (first test)
AbortPauseCheck(t) ==
    /\ pc[t] = "chk"
    /\ IF is_aborted
          THEN /\ pc' = [pc EXCEPT ![t] = "fin"]
               /\ outcome' = [outcome EXCEPT ![t] = "aborted"]
          ELSE /\ pc' = [pc EXCEPT ![t] = IF is_paused THEN "sleep" ELSE "clr"]
               /\ UNCHANGED outcome
    /\ put' = [put EXCEPT ![t] = IF is_aborted THEN <<Event("Sequence Aborted by User.", NoLine)>> ELSE <<>>]
    /\ UNCHANGED <<relMode, asked_vol, aux, split, current_pipette_volume, last_known_module, lineCap, faults, prog, ip, idx, tipKey, flags, ok_event, idle, pending, rec, tips,
                   ui, hist>>

\* In the pause loop: time.sleep(0.1); if self.is_aborted: raise ...; the loop
\* is left when is_paused is found False.
PauseSleep(t) ==
    /\ pc[t] = "sleep"
    /\ is_aborted \/ ~is_paused
    /\ IF is_aborted
          THEN /\ pc' = [pc EXCEPT ![t] = "fin"]
               /\ outcome' = [outcome EXCEPT ![t] = "aborted"]
          ELSE /\ pc' = [pc EXCEPT ![t] = "clr"]
               /\ UNCHANGED outcome
    /\ put' = [put EXCEPT ![t] = IF is_aborted THEN <<Event("Sequence Aborted by User.", NoLine)>> ELSE <<>>]
    /\ UNCHANGED <<relMode, asked_vol, aux, split, current_pipette_volume, last_known_module, lineCap, faults, prog, ip, idx, tipKey, flags, ok_event, idle, pending, rec, tips,
                   ui, hist>>

\* self.ok_event.clear()
ClearOk(t) ==
    /\ pc[t] = "clr"
    /\ ok_event' = FALSE
    /\ ackSet' = [ackSet EXCEPT ![t] = FALSE]
    /\ pc' = [pc EXCEPT ![t] = "wr"]
    /\ put' = [put EXCEPT ![t] = <<>>]
    /\ UNCHANGED <<relMode, asked_vol, aux, split, current_pipette_volume, last_known_module, tipOn, pickEnd, lineCap, faults, prog, ip, idx, tipKey, outcome, flags, idle, pending,
                   rec, tips, ui, hadTimeout, abortSeen, wrote, sent, wroteInPause,
                   noTipSeen, noTipAtStart>>

\* rx_queue.put(">> line"); self._send_raw(line + "\n"); last_action_time = now
WriteLine(t) ==
    /\ pc[t] = "wr"
    /\ pending' = Append(pending, [src |-> t, dead |-> FALSE])
    /\ idle' = FALSE
    /\ pc' = [pc EXCEPT ![t] = "wait"]
    /\ sent' = [sent EXCEPT ![t] = Append(@, idx[t])]
    /\ wrote' = [wrote EXCEPT ![t] = TRUE]
    /\ wroteInPause' = [wroteInPause EXCEPT ![t] = IF is_paused THEN Min(@ + 1, 2) ELSE @]
    /\ tipOn' = (tipOn /\ Call(t).kind \notin EjectKinds)
    /\ relMode' = CASE LineType(Call(t), idx[t]) = "G91" -> TRUE
                     [] LineType(Call(t), idx[t]) = "G90" -> FALSE
                     [] OTHER -> relMode
    /\ put' = [put EXCEPT ![t] = <<Event(">>", idx[t])>>]
    /\ UNCHANGED <<asked_vol, aux, split, current_pipette_volume, last_known_module, ackSet, pickEnd, lineCap, faults, prog, ip, idx, tipKey, outcome, flags, ok_event, rec, tips, ui,
                   hadTimeout, abortSeen, noTipSeen, noTipAtStart>>

\* except Exception as e: rx_queue.put("Send error"); return
WriteFails(t) ==
    /\ pc[t] = "wr"
    /\ faults < MaxFaults
    /\ faults' = faults + 1
    /\ pc' = [pc EXCEPT ![t] = "fin"]
    /\ outcome' = [outcome EXCEPT ![t] = "senderror"]
    /\ put' = [put EXCEPT ![t] = <<Event(">>", idx[t]), Event("Send error", NoLine)>>]
    /\ UNCHANGED <<relMode, asked_vol, aux, split, current_pipette_volume, last_known_module, lineCap, prog, ip, idx, tipKey, flags, ok_event, idle, pending, rec, tips,
                   ui, hist>>

\* A variant of the wait that goes on to the next line whether or not ok_event
\* is set.
AckWaitUnsignalled(t) ==
    /\ pc[t] = "wait"
    /\ idx' = [idx EXCEPT ![t] = @ + 1]
    /\ IF idx[t] + 1 > Min(Call(t).n, lineCap)
          THEN /\ pc' = [pc EXCEPT ![t] = "fin"]
               /\ outcome' = [outcome EXCEPT ![t] = "complete"]
          ELSE /\ pc' = [pc EXCEPT ![t] = "chk"]
               /\ UNCHANGED outcome
    /\ put' = [put EXCEPT ![t] = <<>>]
    /\ UNCHANGED <<relMode, asked_vol, aux, split, current_pipette_volume, last_known_module, lineCap, faults, prog, ip, tipKey, flags, ok_event, idle, pending, rec,
                   tips, ui, hist>>

\* ok = self.ok_event.wait(timeout), ok is True: next line, or the list is done.
AckWait(t) ==
    /\ pc[t] = "wait" /\ ok_event
    /\ idx' = [idx EXCEPT ![t] = @ + 1]
    /\ IF idx[t] + 1 > Min(Call(t).n, lineCap)
          THEN /\ pc' = [pc EXCEPT ![t] = "fin"]
               /\ outcome' = [outcome EXCEPT ![t] = "complete"]
          ELSE /\ pc' = [pc EXCEPT ![t] = "chk"]
               /\ UNCHANGED outcome
    /\ put' = [put EXCEPT ![t] = <<>>]
    /\ UNCHANGED <<relMode, asked_vol, aux, split, current_pipette_volume, last_known_module, lineCap, faults, prog, ip, tipKey, flags, ok_event, idle, pending, rec,
                   tips, ui, hist>>

\* ok is False: rx_queue.put("Timeout waiting for 'ok'"); return
AckTimeout(t) ==
    /\ pc[t] = "wait" /\ ~ok_event
    /\ faults < MaxFaults
    /\ faults' = faults + 1
    /\ pc' = [pc EXCEPT ![t] = "fin"]
    /\ outcome' = [outcome EXCEPT ![t] = "timeout"]
    /\ hadTimeout' = [hadTimeout EXCEPT ![t] = TRUE]
    /\ pending' = [i \in DOMAIN pending |->
                      IF pending[i].src = t THEN [pending[i] EXCEPT !.dead = TRUE]
                      ELSE pending[i]]
    /\ put' = [put EXCEPT ![t] = <<Event("Error: Timeout waiting for 'ok' on", idx[t]),
                                   Event("Stopping sequence to prevent crash.", NoLine)>>]
    /\ UNCHANGED <<relMode, asked_vol, aux, split, current_pipette_volume, last_known_module, tipOn, ackSet, pickEnd, lineCap, prog, ip, idx, tipKey, flags, ok_event, idle, rec, tip_inventory, tipsVar, ui,
                   abortSeen, wrote, sent, wroteInPause, noTipSeen,
                   noTipAtStart>>

\* finally: is_sequence_running = False; last_action_time = now;
\* if not self.is_aborted: rx_queue.put("Sequence Complete").  The run_seq then
\* goes on with its next call, however the list ended; the assignments to
\* current_pipette_volume and last_known_module that follow the call in the
\* run_seq are made in the same step.
Finish(t) ==
    /\ pc[t] = "fin"
    /\ is_sequence_running' = FALSE
    /\ idle' = FALSE
    /\ ip' = [ip EXCEPT ![t] = @ + 1]
    /\ pc' = [pc EXCEPT ![t] = NextCall(t, ip[t] + 1)]
    /\ pickEnd' = IF Call(t).kind = "pick"
                     THEN [pickEnd EXCEPT ![t] = outcome[t]] ELSE pickEnd
    /\ tipOn' = (tipOn \/ (Call(t).kind = "pick" /\ outcome[t] = "complete"))
    /\ current_pipette_volume' =
          IF Call(t).vol = NoVol THEN current_pipette_volume
          ELSE CHOOSE v \in Call(t).vol : TRUE
    /\ last_known_module' = IF Call(t).mod = NoMod THEN last_known_module ELSE Call(t).mod
    /\ put' = [put EXCEPT ![t] = IF is_aborted THEN <<>> ELSE <<Event("Sequence Complete", NoLine)>>]
    /\ UNCHANGED <<relMode, asked_vol, aux, split, lineCap, faults, prog, idx, tipKey, outcome, is_paused, is_aborted, abort_btn,
                   ok_event, pending, rec, tips, ui, hadTimeout, abortSeen, wrote, sent,
                   wroteInPause, noTipSeen, noTipAtStart, ackSet>>

\* ---------------------------------------------------------------- device, reader
\* The device answers the oldest line with "ok"; _reader_loop sets ok_event.
DeviceAck ==
    /\ pending # <<>>
    /\ pending' = Tail(pending)
    /\ ok_event' = TRUE
    /\ ackSet' = [t \in Threads |-> ackSet[t] \/ pc[t] \in {"wr", "wait"}]
    /\ UNCHANGED <<relMode, asked_vol, aux, split, put, current_pipette_volume, last_known_module, tipOn, pickEnd, lineCap, faults, thr, flags, idle, rec, tips, ui, hadTimeout, abortSeen,
                   wrote, sent, wroteInPause, noTipSeen, noTipAtStart>>

\* A raw M108 may be consumed by the firmware without an "ok".
DeviceSilent ==
    /\ pending # <<>> /\ Head(pending).src = "raw"
    /\ pending' = Tail(pending)
    /\ UNCHANGED <<relMode, asked_vol, aux, split, put, current_pipette_volume, last_known_module, lineCap, faults, thr, flags, ok_event, idle, rec, tips, ui, hist>>

\* IDLE_TIMEOUT_BEFORE_POLL elapses after last_action_time.
IdleElapses ==
    /\ ~idle
    /\ \A t \in Threads : Quiescent(t)
    /\ idle' = TRUE
    /\ UNCHANGED <<relMode, asked_vol, aux, split, put, current_pipette_volume, last_known_module, lineCap, faults, thr, flags, ok_event, pending, rec, tips, ui, hist>>

\* _poll_position_loop.  rx_queue is emptied every 50 ms by _poll_rx_queue and
\* every put is followed by an update of last_action_time, so the test
\* "ok_event.is_set() or rx_queue.empty()" holds once the debounce has elapsed.
PollPosition ==
    /\ ~is_sequence_running /\ idle
    /\ Len(pending) < MaxPending
    /\ pending' = Append(pending, [src |-> "poll", dead |-> FALSE])
    /\ UNCHANGED <<relMode, asked_vol, aux, split, put, current_pipette_volume, last_known_module, lineCap, faults, thr, flags, ok_event, idle, rec, tips, ui, hist>>

\* ---------------------------------------------------------------- operator surface
\* transfer_liquid_sequence
StartTransfer(cfgs) ==
    /\ pc["task"] = "idle"
    /\ \E tasks \in cfgs :
          StartThreads({"task"}, [t \in {"task"} |-> TransferProg(tasks)], NoTip)
    /\ UNCHANGED <<relMode, asked_vol, aux, split, current_pipette_volume, last_known_module, tipOn, lineCap, faults, ui, flags, ok_event, idle, pending, rec, tips>>

\* send_jog
SendJog ==
    /\ pc["manual"] = "idle"
    /\ last_known_module' = "JOG"
    /\ StartThreads({"manual"}, [t \in {"manual"} |-> JogProg], NoTip)
    /\ UNCHANGED <<relMode, asked_vol, aux, split, current_pipette_volume, tipOn, lineCap, faults, ui, flags, ok_event, idle, pending, rec, tips>>

\* pick_tip_sequence: target_tip is read from the combo variable.
PickTipSequence ==
    /\ pc["manual"] = "idle"
    /\ IF tipsVar = NoTip
          THEN /\ pc' = [pc EXCEPT !["manual"] = "done"]
               /\ noTipAtStart' = [noTipAtStart EXCEPT !["manual"] = TRUE]
               /\ UNCHANGED <<prog, ip, idx, tipKey, outcome, hadTimeout, abortSeen,
                              wrote, sent, wroteInPause, noTipSeen, ackSet, pickEnd, put>>
          ELSE StartThreads({"manual"}, [t \in {"manual"} |-> PickTipProg], tipsVar)
    /\ UNCHANGED <<relMode, asked_vol, aux, split, current_pipette_volume, last_known_module, tipOn, lineCap, faults, ui, flags, ok_event, idle, pending, rec, tips>>

\* eject_tip_sequence, from its button.
EjectTipSequence ==
    /\ pc["manual"] = "idle"
    /\ StartThreads({"manual"}, [t \in {"manual"} |-> EjectTipProg], NoTip)
    /\ UNCHANGED <<relMode, asked_vol, aux, split, lineCap, faults, ui, flags, ok_event, idle, pending, rec, tips, tipOn, head>>

\* generic_move_sequence to a rack module; _get_smart_travel_gcode has a line
\* less when the head is at that module already.
GenericMoveSequence(module) ==
    /\ pc["manual"] = "idle"
    /\ StartThreads({"manual"},
                    [t \in {"manual"} |->
                        <<Send("move", IF last_known_module = module
                                          THEN SmartTravelLines - 1 ELSE SmartTravelLines),
                          WaitThenModule(module)>>], NoTip)
    /\ UNCHANGED <<relMode, asked_vol, aux, split, lineCap, faults, ui, flags, ok_event, idle, pending, rec, tips, tipOn, head>>

\* new_vol = self.current_pipette_volume +/- delta_ul
NewVol(mode, delta) ==
    IF mode = "aspirate" THEN current_pipette_volume + delta
    ELSE current_pipette_volume - delta

\* if new_vol > MAX_PIPETTE_VOL or new_vol < MIN_PIPETTE_VOL: ... return
InPipetteRange(v) == ~(v > MAX_PIPETTE_VOL \/ v < MIN_PIPETTE_VOL)

\* manual_pipette_move: G90, the E move, M18 E; run_seq assigns new_vol after
\* _wait_for_finish.
ManualPipetteMoveBy(w, mode, delta) ==
    /\ pc[w] = "idle"
    /\ InPipetteRange(NewVol(mode, delta))
    /\ StartThreads({w},
                    [t \in {w} |->
                        <<Send("pipette", 3),
                          SendThen("M400", 1, {NewVol(mode, delta)}, NoMod)>>], NoTip)
    /\ asked_vol' = IF mode = "aspirate" THEN asked_vol + delta ELSE asked_vol - delta
    /\ UNCHANGED <<relMode, aux, split, lineCap, faults, ui, flags, ok_event, idle, pending, rec, tips, tipOn, head>>

ManualPipetteMove(mode, delta) == ManualPipetteMoveBy("manual", mode, delta)

\* smart_pipette_sequence: refused at a module without a rack configuration;
\* G90, Z down, the E move, Z up, M18 E.
SmartPipetteSequence(mode, delta) ==
    /\ pc["manual"] = "idle"
    /\ last_known_module \in RackModules
    /\ InPipetteRange(NewVol(mode, delta))
    /\ StartThreads({"manual"},
                    [t \in {"manual"} |->
                        <<Send(mode, 5),
                          SendThen("M400", 1, {NewVol(mode, delta)}, NoMod)>>], NoTip)
    /\ asked_vol' = IF mode = "aspirate" THEN asked_vol + delta ELSE asked_vol - delta
    /\ UNCHANGED <<relMode, aux, split, lineCap, faults, ui, flags, ok_event, idle, pending, rec, tips, tipOn, head>>

\* run_calibration_sequence: G92, the E move and CALIBRATION_SETUP_GCODE;
\* run_seq assigns target_ul after _wait_for_finish.
RunCalibrationSequence(target_ul) ==
    /\ pc["manual"] = "idle"
    /\ ~(target_ul < 0)
    /\ StartThreads({"manual"},
                    [t \in {"manual"} |->
                        <<Send("calibrate", 2 + 9),
                          SendThen("M400", 1, {target_ul}, NoMod)>>], NoTip)
    /\ asked_vol' = target_ul
    /\ UNCHANGED <<relMode, aux, split, lineCap, faults, ui, flags, ok_event, idle, pending, rec, tips, tipOn, head>>

\* The run_seq of a manual action has returned and its thread has ended; the
\* next manual action starts a thread of its own.
ThreadReturns(w) ==
    /\ pc[w] = "done"
    /\ pc' = [pc EXCEPT ![w] = "idle"]
    /\ UNCHANGED <<relMode, asked_vol, aux, split, put, lineCap, faults, prog, ip, idx, tipKey, outcome, flags, ok_event, idle,
                   pending, rec, tips, ui, hist, head>>

ManualReturns == ThreadReturns("manual")

\* aliquots_sequence with one line: no test of the source position or of the
\* volume is made before run_seq is started.
AliquotsSequence(source, volume, ndest) ==
    /\ pc["task"] = "idle"
    /\ StartThreads({"task"}, [t \in {"task"} |-> AliquotProg(source, volume, ndest)], NoTip)
    /\ UNCHANGED <<relMode, asked_vol, aux, split, lineCap, faults, ui, flags, ok_event, idle, pending, rec, tips, tipOn, head>>

\* toggle_pause
TogglePause ==
    /\ ui < MaxUI
    /\ ui' = ui + 1
    /\ is_paused' = ~is_paused
    /\ abort_btn' = ~is_paused
    /\ wroteInPause' = IF ~is_paused THEN [t \in Threads |-> 0] ELSE wroteInPause
    /\ UNCHANGED <<relMode, asked_vol, aux, split, put, current_pipette_volume, last_known_module, tipOn, ackSet, pickEnd, lineCap, faults, thr, is_sequence_running, is_aborted, ok_event, idle, pending, rec, tips, hadTimeout, abortSeen, wrote, sent,
                   noTipSeen, noTipAtStart>>

\* send_resume
SendResume ==
    /\ ui < MaxUI /\ Len(pending) < MaxPending
    /\ ui' = ui + 1
    /\ is_paused' = FALSE
    /\ abort_btn' = IF is_paused THEN FALSE ELSE abort_btn
    /\ pending' = Append(pending, [src |-> "raw", dead |-> FALSE])
    /\ UNCHANGED <<relMode, asked_vol, aux, split, put, current_pipette_volume, last_known_module, lineCap, faults, thr, is_sequence_running, is_aborted, ok_event, idle, rec, tips, hist>>

\* abort_sequence, reachable while the abort button is enabled; one abort and
\* one recovery in a behaviour.
AbortSequence ==
    /\ ui < MaxUI /\ abort_btn
    /\ rec = "none" /\ pc["eject"] = "idle" /\ pc["park"] = "idle"
    /\ ui' = ui + 1
    /\ rec' = "sleeping"
    /\ abortSeen' = [t \in Threads |-> abortSeen[t] \/ (Running(t) /\ wrote[t])]
    /\ IF is_sequence_running
          THEN /\ is_aborted' = TRUE
               /\ is_paused' = FALSE
               /\ abort_btn' = FALSE
          ELSE UNCHANGED <<is_aborted, is_paused, abort_btn>>
    /\ UNCHANGED <<relMode, asked_vol, aux, split, put, current_pipette_volume, last_known_module, tipOn, ackSet, pickEnd, lineCap, faults, thr, is_sequence_running, ok_event, idle, pending,
                   tips, hadTimeout, wrote, sent, wroteInPause,
                   noTipSeen, noTipAtStart>>

\* _emergency_park after time.sleep(5.0): the flags are reset.
RecoveryWake ==
    /\ rec = "sleeping"
    /\ \A t \in Threads : Quiescent(t)
    /\ rec' = "woke"
    /\ is_aborted' = FALSE
    /\ is_paused' = FALSE
    /\ UNCHANGED <<relMode, asked_vol, aux, split, put, current_pipette_volume, last_known_module, lineCap, faults, thr, is_sequence_running, abort_btn, ok_event, idle, pending, tips, ui, hist>>

\* _emergency_park: eject_tip_sequence() and park_head_sequence() each start
\* their run_seq in a thread of its own and return at once.
RecoverySpawn ==
    /\ rec = "woke"
    /\ rec' = "none"
    /\ StartThreads({"eject", "park"},
                    [t \in {"eject", "park"} |->
                        IF t = "eject" THEN EjectTipProg ELSE ParkHeadProg], NoTip)
    /\ UNCHANGED <<relMode, asked_vol, aux, split, current_pipette_volume, last_known_module, tipOn, lineCap, faults, flags, ok_event, idle, pending, tips, ui>>

\* toggle_tip_state / reset_all_tips_fresh / reset_all_tips_empty
ToggleTipState(key) ==
    /\ ui < MaxUI
    /\ ui' = ui + 1
    /\ tip_inventory' = [tip_inventory EXCEPT ![key] = ~@]
    /\ tipsVar' = AvailableTipsCombo(tip_inventory')
    /\ UNCHANGED <<relMode, asked_vol, aux, split, put, current_pipette_volume, last_known_module, lineCap, faults, thr, flags, ok_event, idle, pending, rec, hist>>

ResetAllTips(fresh) ==
    /\ ui < MaxUI
    /\ ui' = ui + 1
    /\ tip_inventory' = [k \in TipKeys |-> fresh]
    /\ tipsVar' = AvailableTipsCombo(tip_inventory')
    /\ UNCHANGED <<relMode, asked_vol, aux, split, put, current_pipette_volume, last_known_module, lineCap, faults, thr, flags, ok_event, idle, pending, rec, hist>>

\* ---------------------------------------------------------------- specifications
\* _send_lines_with_ok with a device that answers and a link that writes.
SendStepOk(t) ==
    \/ EnterSend(t) \/ AbortPauseCheck(t) \/ ClearOk(t)
    \/ WriteLine(t) \/ AckWait(t) \/ Finish(t)

SendStep(t) == SendStepOk(t) \/ WriteFails(t) \/ AckTimeout(t)

\* One transfer line without wash: the Task of the concurrent specifications.
PlainTasks == {<<[wash |-> FALSE, wsrc |-> 1]>>}

\* No transfer line is in its batch loop.
NoWashPlan ==
    /\ wash_vols = <<>> /\ remaining = <<>> /\ in_tip = 0 /\ wi = 0
    /\ wpc = "done" /\ cycle_disp = <<>> /\ disp_sum = 0
    /\ max_liquid_ul = MAX_WASH_LOAD /\ got = <<>> /\ cycle_idx = <<>>

NoLookup ==
    /\ grid = [num_cols |-> 1, num_rows |-> 1, start_x |-> 0, start_y |-> 0,
               end_x |-> 0, end_y |-> 0]
    /\ well = [col_idx |-> 0, row_idx |-> 0]
    /\ resolved = <<>>

NoLeg ==
    /\ xfer = [start_module |-> "TIPS", src_mod |-> "PLATE", dest_mod |-> "PLATE",
               is_volatile |-> FALSE]
    /\ lists = <<>>
    /\ xpc = "done"

NoneHandled == [ack |-> FALSE, parsed |-> FALSE, put |-> FALSE]

NoReader ==
    /\ rx_line = <<>> /\ rx_pc = "wait" /\ rx_queue = <<>> /\ handled = NoneHandled

NoKeys == rack = "PLATE" /\ rack_key = [row |-> "A", suffix |-> "1"]
          /\ answer = [out |-> "none", xy |-> <<0, 0>>]

NoWashCycle ==
    /\ wgroup = [n |-> 1, vol |-> 100, src_mod |-> "PLATE", dest_mod |-> "PLATE",
                 has_tip |-> TRUE]
    /\ wlists = <<>>
    /\ wcpc = "done"

NoLater == NoReader /\ NoKeys /\ NoWashCycle

NoAux == NoWashPlan /\ NoLookup /\ NoLeg /\ NoLater

NoBatchLoop ==
    /\ total_vol = 0 /\ is_volatile = FALSE /\ remaining_vol = 0 /\ batches = <<>>
    /\ NoAux

Init == InitWith(MaxLines) /\ NoBatchLoop

\* Spec: the protocol engine with a Task, a manual jog and the poller; every
\* line is written and answered.
Next ==
    \/ StartTransfer(PlainTasks)
    \/ SendJog
    \/ \E t \in {"task", "manual"} : SendStepOk(t) \/ FindTip(t) \/ ConsumeTip(t)
    \/ DeviceAck
    \/ IdleElapses
    \/ PollPosition

Spec == Init /\ [][Next]_vars

\* SpecAbort: a Task under pause, resume and abort, with the recovery workers.
InitAbort == InitWith(MaxLinesAbort) /\ NoBatchLoop

NextAbort ==
    \/ StartTransfer(PlainTasks)
    \/ TogglePause
    \/ SendResume
    \/ AbortSequence
    \/ RecoveryWake
    \/ RecoverySpawn
    \/ \E t \in Threads \ {"manual"} :
          SendStepOk(t) \/ PauseSleep(t) \/ FindTip(t) \/ ConsumeTip(t)
    \/ DeviceAck
    \/ DeviceSilent

SpecAbort == InitAbort /\ [][NextAbort]_vars

\* SpecPause: a Task under pause and resume, with timeouts and write errors.
NextPause ==
    \/ StartTransfer(PlainTasks)
    \/ TogglePause
    \/ SendResume
    \/ \E t \in {"task"} :
          SendStep(t) \/ PauseSleep(t) \/ FindTip(t) \/ ConsumeTip(t)
    \/ DeviceAck
    \/ DeviceSilent

SpecPause == Init /\ [][NextPause]_vars

\* SpecTask: a Task, then possibly a manual pick, against the tip inventory,
\* which the operator edits while no sequence runs; no pause, abort or poller.
AllTasks == TaskLists(TaskLine)
NoneRunning == \A t \in Threads : ~Running(t)

NextTask ==
    \/ NoneRunning /\ StartTransfer(AllTasks)
    \/ NoneRunning /\ PickTipSequence
    \/ NoneRunning /\ \E k \in TipKeys : ToggleTipState(k)
    \/ NoneRunning /\ \E fresh \in BOOLEAN : ResetAllTips(fresh)
    \/ \E t \in {"task", "manual"} : SendStep(t) \/ FindTip(t) \/ ConsumeTip(t)
    \/ DeviceAck

SpecTask == Init /\ [][NextTask]_vars

\* SpecManual: the manual actions, one after the other, with timeouts and write
\* errors; no Task, pause, abort or poller.
NextManual ==
    \/ PickTipSequence
    \/ EjectTipSequence
    \/ SendJog
    \/ \E m \in RackModules : GenericMoveSequence(m)
    \/ \E mode \in PipetteModes, d \in Deltas : ManualPipetteMove(mode, d)
    \/ \E mode \in PipetteModes, d \in Deltas : SmartPipetteSequence(mode, d)
    \/ \E v \in CalTargets : RunCalibrationSequence(v)
    \/ ManualReturns
    \/ \E t \in {"manual"} : SendStep(t) \/ ConsumeTip(t)
    \/ DeviceAck

SpecManual == Init /\ [][NextManual]_vars

\* SpecAliquot: one aliquot Task; every line is written and answered.
AliquotVolumes == {200, 800}
AliquotDests == {1, 2}

NextAliquot ==
    \/ \E c \in Combo, v \in AliquotVolumes, n \in AliquotDests : AliquotsSequence(c, v, n)
    \/ \E t \in {"task"} : SendStepOk(t) \/ FindTip(t) \/ ConsumeTip(t) \/ ResolveStep(t)
    \/ DeviceAck

SpecAliquot == Init /\ [][NextAliquot]_vars

\* SpecTips: a Task of plain transfer lines against the tip inventory, which
\* the operator edits at any time; every line is written and answered.
TipTasks == TaskLists({[wash |-> FALSE, wsrc |-> 1]})

NextTips ==
    \/ StartTransfer(TipTasks)
    \/ \E k \in TipKeys : ToggleTipState(k)
    \/ \E fresh \in BOOLEAN : ResetAllTips(fresh)
    \/ \E t \in {"task"} : SendStepOk(t) \/ FindTip(t) \/ ConsumeTip(t)
    \/ DeviceAck

SpecTips == Init /\ [][NextTips]_vars

\* SpecBatch: the batch loop of one transfer line, for every volume and liquid
\* class of the model.  total_vol = float(task["vol"]); remaining_vol = total_vol
InitBatch ==
    /\ InitWith(MaxLines)
    /\ total_vol \in LineVolumes
    /\ is_volatile \in BOOLEAN
    /\ remaining_vol = total_vol
    /\ batches = <<>>
    /\ NoAux

\* One turn of "while remaining_vol > 0.0001": the batch is passed to
\* _perform_single_transfer, then remaining_vol -= batch_vol.
TransferBatch ==
    /\ remaining_vol > Tolerance
    /\ batches' = Append(batches, BatchVol(remaining_vol, MaxBatch(is_volatile)))
    /\ remaining_vol' = remaining_vol - BatchVol(remaining_vol, MaxBatch(is_volatile))
    /\ UNCHANGED <<relMode, asked_vol, aux, total_vol, is_volatile, lineCap, faults, thr, flags, ok_event, idle, pending,
                   rec, tips, ui, hist, put, head>>

NextBatch == TransferBatch

SpecBatch == InitBatch /\ [][NextBatch]_vars

\* ---- pipette buttons pressed while an earlier pipette move still runs ----
\* The volume of the pairs (aspirate d, dispense d).
PairDeltas == {100}
PipetteThreads == {"manual", "press"}

\* Two presses, each with a worker thread of its own.
NextPipette ==
    \/ \E w \in PipetteThreads, mode \in PipetteModes, d \in PairDeltas :
          ManualPipetteMoveBy(w, mode, d)
    \/ \E t \in PipetteThreads : SendStep(t)
    \/ DeviceAck

SpecPipette == Init /\ [][NextPipette]_vars

\* ---- a pin calibration and a transfer Task ----
\* start_pin_calibration_sequence: the tip is searched when the button is
\* pressed; G28, Z, the pick list and three moves to the pin are one list;
\* run_seq marks the tip used after _wait_for_finish.
StartPinCalibrationSequence ==
    /\ pc["manual"] = "idle"
    /\ FindNextAvailableTip(tip_inventory) # NoTip
    /\ last_known_module' = "Unknown"
    /\ StartThreads({"manual"},
                    [t \in {"manual"} |->
                        <<Send("pincal", 2 + PickLines + 3), WaitForFinish,
                          ConsumeThen("CALIBRATION_PIN")>>],
                    FindNextAvailableTip(tip_inventory))
    /\ UNCHANGED <<aux, split, lineCap, faults, ui, flags, ok_event, idle, pending, rec,
                   tips, tipOn, current_pipette_volume, asked_vol, relMode>>

NextPinCal ==
    \/ StartTransfer(PlainTasks)
    \/ StartPinCalibrationSequence
    \/ \E t \in {"task", "manual"} : SendStepOk(t) \/ FindTip(t) \/ ConsumeTip(t)
    \/ DeviceAck

SpecPinCal == Init /\ [][NextPinCal]_vars

\* ---- a jog and a calibration move ----
\* _calibrate_module_position: three moves to absolute coordinates, then
\* _wait_for_finish; started whatever else runs.
CalibrateModulePosition ==
    /\ pc["press"] = "idle"
    /\ StartThreads({"press"}, [t \in {"press"} |-> <<Send("calmove", 3), WaitForFinish>>],
                    NoTip)
    /\ UNCHANGED <<aux, split, lineCap, faults, ui, flags, ok_event, idle, pending, rec,
                   tips, tipOn, head, asked_vol, relMode>>

InitMode == InitWith(MaxLinesMode) /\ NoBatchLoop

NextMode ==
    \/ SendJog
    \/ CalibrateModulePosition
    \/ \E t \in {"manual", "press"} : SendStep(t)
    \/ DeviceAck

SpecMode == InitMode /\ [][NextMode]_vars

\* ---- the plan of one batch wash group ----
core == <<lineCap, faults, thr, flags, ok_event, idle, pending, rec, tips, ui, hist,
          put, head, asked_vol, relMode>>
engine == <<core, later>>

InitWashWith(capacities) ==
    /\ InitWith(MaxLines)
    /\ total_vol = 0 /\ is_volatile = FALSE /\ remaining_vol = 0 /\ batches = <<>>
    /\ wash_vols \in WashGroups
    /\ max_liquid_ul \in capacities
    /\ remaining = PlanNeeds(wash_vols)
    /\ got = [i \in DOMAIN PlanNeeds(wash_vols) |-> 0]
    /\ cycle_idx = <<>>
    /\ in_tip = 0 /\ wi = 0 /\ wpc = "while" /\ cycle_disp = <<>> /\ disp_sum = 0
    /\ NoLookup /\ NoLeg /\ NoLater

\* transfer_liquid_sequence passes max_liquid_ul=MAX_WASH_LOAD.
InitWash == InitWashWith({MAX_WASH_LOAD})

\* "while True": total_remaining > 0.0001, so a load is planned.
WashLoad ==
    /\ wpc = "while"
    /\ SumSeq(remaining) > Tolerance
    /\ in_tip' = LoadUl(max_liquid_ul, SumSeq(remaining))
    /\ wi' = 1
    /\ cycle_disp' = <<>>
    /\ cycle_idx' = <<>>
    /\ wpc' = "for"
    /\ UNCHANGED <<leg, lookup, wash_vols, max_liquid_ul, got, remaining, disp_sum, split, engine>>

\* "if total_remaining <= 0.0001: break" (an empty plan returns before the loop)
WashBreak ==
    /\ wpc = "while"
    /\ SumSeq(remaining) <= Tolerance
    /\ wpc' = "done"
    /\ UNCHANGED <<leg, lookup, wash_vols, max_liquid_ul, got, cycle_idx, remaining, in_tip, wi, cycle_disp, disp_sum, split, engine>>

\* One turn of "for i, p in enumerate(plan)" that does not leave the loop.
WashVisit ==
    /\ wpc = "for"
    /\ wi <= Len(remaining)
    /\ IF remaining[wi] <= Tolerance
       THEN UNCHANGED <<remaining, in_tip, cycle_disp, disp_sum, got, cycle_idx>>
       ELSE /\ in_tip > Tolerance
            /\ in_tip' = in_tip - DispUl(remaining[wi], in_tip)
            /\ remaining' = [remaining EXCEPT
                                ![wi] = IF @ - DispUl(@, in_tip) > 0
                                        THEN @ - DispUl(@, in_tip) ELSE 0]
            /\ cycle_disp' = Append(cycle_disp, DispUl(remaining[wi], in_tip))
            /\ disp_sum' = disp_sum + DispUl(remaining[wi], in_tip)
            /\ got' = [got EXCEPT ![wi] = @ + DispUl(remaining[wi], in_tip)]
            /\ cycle_idx' = Append(cycle_idx, wi)
    /\ wi' = wi + 1
    /\ UNCHANGED <<leg, lookup, wash_vols, max_liquid_ul, wpc, split, engine>>

\* The for loop ends (plan exhausted, or "if in_tip <= 0.0001: break") and
\* the commands of the load are sent.
WashSend ==
    /\ wpc = "for"
    /\ \/ wi > Len(remaining)
       \/ wi <= Len(remaining) /\ remaining[wi] > Tolerance /\ in_tip <= Tolerance
    /\ wpc' = "while"
    /\ UNCHANGED <<leg, lookup, wash_vols, max_liquid_ul, got, cycle_idx, remaining, in_tip, wi, cycle_disp, disp_sum, split, engine>>

NextWash == WashLoad \/ WashBreak \/ WashVisit \/ WashSend

SpecWash == InitWash /\ [][NextWash]_vars

\* The call with any capacity: the one the transfer sequence passes, or one
\* that is not positive.  The function runs on as long as it can take a step.
WashCapacities == {0, MAX_WASH_LOAD}
InitWashCall == InitWashWith(WashCapacities)
SpecWashCall == InitWashCall /\ [][NextWash]_vars /\ WF_vars(NextWash)

\* ---- one position lookup ----
InitLookup ==
    /\ InitWith(MaxLines)
    /\ total_vol = 0 /\ is_volatile = FALSE /\ remaining_vol = 0 /\ batches = <<>>
    /\ NoWashPlan /\ NoLeg /\ NoLater
    /\ grid \in Grids
    /\ well \in [col_idx : 0..(grid.num_cols - 1), row_idx : 0..(grid.num_rows - 1)]
    /\ resolved = <<>>

\* get_well_coordinates(well_key) on the rack
LookupKey ==
    /\ resolved = <<>>
    /\ resolved' = GetRackCoordinates(grid, well)
    /\ UNCHANGED <<leg, grid, well, wash, split, engine>>

NextLookup == LookupKey

SpecLookup == InitLookup /\ [][NextLookup]_vars

\* ---- the command lists of one transfer, or of one move ----
InitLeg ==
    /\ InitWith(MaxLines)
    /\ total_vol = 0 /\ is_volatile = FALSE /\ remaining_vol = 0 /\ batches = <<>>
    /\ NoWashPlan /\ NoLookup /\ NoLater
    /\ xfer \in Transfers
    /\ lists = <<>>
    /\ xpc = "start"

\* generic_move_sequence: the head travels from start_module to src_mod.
SmartTravelOnly ==
    /\ xpc = "start"
    /\ lists' = Append(lists, GetSmartTravelGcode(xfer.src_mod, xfer.start_module))
    /\ xpc' = "moved"
    /\ UNCHANGED <<xfer, wash, lookup, split, engine>>

\* _perform_single_transfer: self._send_lines_with_ok(cmds)
PerformLoad ==
    /\ xpc = "start"
    /\ lists' = Append(lists, LoadCmds(xfer))
    /\ xpc' = "loaded"
    /\ UNCHANGED <<xfer, wash, lookup, split, engine>>

\* self._send_lines_with_ok(volatile_cmds) or (cmds_std)
PerformTravel ==
    /\ xpc = "loaded"
    /\ lists' = Append(lists, TravelCmds(xfer))
    /\ xpc' = "travelled"
    /\ UNCHANGED <<xfer, wash, lookup, split, engine>>

\* self._send_lines_with_ok(cmds_disp)
PerformDispense ==
    /\ xpc = "travelled"
    /\ lists' = Append(lists, DispCmds(xfer))
    /\ xpc' = "done"
    /\ UNCHANGED <<xfer, wash, lookup, split, engine>>

NextLeg == SmartTravelOnly \/ PerformLoad \/ PerformTravel \/ PerformDispense

SpecLeg == InitLeg /\ [][NextLeg]_vars

\* ---- the serial reader ----
\* The bytes of a received line, as tokens: a blank, letters, the three axis
\* labels of a position report and the busy marker.
MaxText == 5
Tokens == {" ", "o", "O", "k", "X:", "Y:", "Z:", "echo:busy"}
SerialLines(n) == UNION {[1..k -> Tokens] : k \in 0..n}

\* str.strip()
RECURSIVE LStrip(_)
LStrip(s) == IF s # <<>> /\ Head(s) = " " THEN LStrip(Tail(s)) ELSE s
RECURSIVE RStrip(_)
RStrip(s) == IF s # <<>> /\ s[Len(s)] = " " THEN RStrip(SubSeq(s, 1, Len(s) - 1)) ELSE s
Strip(s) == RStrip(LStrip(s))

\* str.lower()
Lower(s) == [i \in DOMAIN s |-> IF s[i] = "O" THEN "o" ELSE s[i]]

\* "marker" in text
Contains(s, tok) == \E i \in DOMAIN s : s[i] = tok

StartsWithOkAsWritten(text) == Len(text) >= 2 /\ text[1] = "o" /\ text[2] = "k"

\* text.lower().startswith("ok")
IsOk(text) == Len(Lower(text)) >= 2 /\ Lower(text)[1] = "o" /\ Lower(text)[2] = "k"

\* "X:" in text and "Y:" in text and "Z:" in text
IsPosition(text) == Contains(text, "X:") /\ Contains(text, "Y:") /\ Contains(text, "Z:")

Printer(text) == [tag |-> "[PRINTER]", text |-> text]

\* ser.read(256) has completed a line: line, buffer = buffer.split(b"\n", 1).
InitReader ==
    /\ InitWith(MaxLines)
    /\ total_vol = 0 /\ is_volatile = FALSE /\ remaining_vol = 0 /\ batches = <<>>
    /\ NoWashPlan /\ NoLookup /\ NoLeg /\ NoKeys /\ NoWashCycle
    /\ rx_line \in SerialLines(MaxText)
    /\ rx_pc = "line"
    /\ rx_queue = <<>>
    /\ handled = NoneHandled

\* _reader_loop, the body of "while b'\n' in buffer" for one line.
ReaderLine ==
    /\ rx_pc = "line"
    /\ rx_pc' = "wait"
    /\ LET text == Strip(rx_line)
           is_ok == IsOk(text)
           is_position == IsPosition(text)
       IN IF text = <<>> \/ Contains(text, "echo:busy")
          THEN /\ handled' = NoneHandled
               /\ UNCHANGED <<rx_queue, ok_event>>
          ELSE /\ rx_queue' = IF ~is_position /\ ~is_ok
                                 THEN Append(rx_queue, Printer(text)) ELSE rx_queue
               /\ ok_event' = (ok_event \/ is_ok)
               /\ handled' = [ack |-> is_ok, parsed |-> is_position,
                              put |-> ~is_position /\ ~is_ok]
    /\ UNCHANGED <<rx_line, lineCap, faults, thr, flags, idle, pending, rec, tips, ui,
                   hist, put, head, asked_vol, relMode, split, wash, lookup, leg, rackcall, washcycle>>

\* _poll_rx_queue: every queued message is passed to log_line.
PollRxQueue ==
    /\ rx_queue # <<>>
    /\ rx_queue' = <<>>
    /\ UNCHANGED <<rx_line, rx_pc, handled, core, split, wash, lookup, leg, rackcall, washcycle>>

\* _send_lines_with_ok: self.ok_event.clear() before the next line is written.
SenderClearsOk ==
    /\ ok_event
    /\ ok_event' = FALSE
    /\ UNCHANGED <<reader, lineCap, faults, thr, flags, idle, pending, rec, tips, ui,
                   hist, put, head, asked_vol, relMode, split, wash, lookup, leg, rackcall, washcycle>>

NextReader ==
    \/ ReaderLine
    \/ PollRxQueue
    \/ SenderClearsOk

SpecReader == InitReader /\ [][NextReader]_vars

\* ---- the coordinate functions of the racks ----
\* Keys: a row letter and a column suffix that is a number or not; names of
\* the wash station's positions, one of them unknown.
KeyRows == {"A", "B", "C", "Z"}
KeySuffixes == {"1", "3", "12", "x"}
Keys == [row : KeyRows, suffix : KeySuffixes]
WashNames == {"Wash A", "Trash", "Wash Z"}
LetterRacks == {"PLATE", "TIPS", "FALCON", "4ML", "FILTER_EPPI", "EPPI"}

\* int(s): the number, where s is one
Numeric(s) == s \in {"1", "3", "12"}
IntOf(s) == CASE s = "1" -> 1 [] s = "3" -> 3 [] s = "12" -> 12

\* list.index(x), where x is in the list
RowLetters == <<"A", "B", "C", "D", "E", "F", "G", "H">>
InList(q, x) == \E i \in DOMAIN q : q[i] = x
IndexIn(q, x) == (CHOOSE i \in DOMAIN q : q[i] = x) - 1

Raises == [out |-> "raise", xy |-> <<0, 0>>]
Returns(xy) == [out |-> "value", xy |-> xy]
Sentinel == Returns(<<0, 0>>)

\* The corners of a rack, from config.py, in tenths of a millimetre.
RackGrid(num_cols, num_rows, start_x, start_y, end_x, end_y) ==
    [num_cols |-> num_cols, num_rows |-> num_rows,
     start_x |-> start_x * (UnitsPerMM \div 10), start_y |-> start_y * (UnitsPerMM \div 10),
     end_x |-> end_x * (UnitsPerMM \div 10), end_y |-> end_y * (UnitsPerMM \div 10)]
At(col_idx, row_idx) == [col_idx |-> col_idx, row_idx |-> row_idx]

\* row_idx = rows.index(row_char) after col_num = int(...): either raises
RowAndColumn(rows, row_char, digits, g) ==
    IF ~Numeric(digits) THEN Raises
    ELSE IF ~InList(rows, row_char) THEN Raises
    ELSE Returns(GetRackCoordinates(g, At(IntOf(digits) - 1, IndexIn(rows, row_char))))

\* get_tip_coordinates: col_num = int(tip_key[1])
GetTipCoordinates(k) ==
    RowAndColumn(SubSeq(RowLetters, 1, 6), k.row, IF k.suffix = "12" THEN "1" ELSE k.suffix,
                 RackGrid(4, 6, 1779, 1442, 2082, 944))

\* get_well_coordinates: col_num = int(well_key[1:])
GetWellCoordinates(k) ==
    RowAndColumn(RowLetters, k.row, k.suffix, RackGrid(12, 8, 44, 2270, 1035, 1641))

\* get_falcon_coordinates (the key is not "50mL")
GetFalconCoordinates(k) ==
    IF ~Numeric(k.suffix) THEN Raises
    ELSE IF ~InList(SubSeq(RowLetters, 1, 2), k.row) THEN Sentinel
    ELSE Returns(GetRackCoordinates(RackGrid(3, 2, 156, 1301, 538, 1100),
                                    At(IntOf(k.suffix) - 1,
                                       IndexIn(SubSeq(RowLetters, 1, 2), k.row))))

\* get_wash_coordinates: mapping.get(wash_name, (0, 0))
GetWashCoordinates(wash_name) ==
    LET cell == CASE wash_name = "Wash A" -> At(0, 0)
                  [] wash_name = "Wash B" -> At(1, 0)
                  [] wash_name = "Wash C" -> At(0, 1)
                  [] wash_name = "Trash" -> At(1, 1)
                  [] OTHER -> At(0, 0)
    IN  Returns(GetRackCoordinates(RackGrid(2, 2, 1607, 628, 1961, 284), cell))

\* get_4ml_coordinates
Get4mlCoordinates(k) ==
    IF k.row # "A" THEN Sentinel
    ELSE IF ~Numeric(k.suffix) THEN Raises
    ELSE Returns(GetRackCoordinates(RackGrid(8, 1, 0 - 40, 797, 1216, 797),
                                    At(IntOf(k.suffix) - 1, 0)))

\* get_1x8_rack_coordinates(key, config, row_char)
Get1x8RackCoordinates(k, row_char, start_y) ==
    IF k.row # row_char THEN Sentinel
    ELSE IF ~Numeric(k.suffix) THEN Sentinel
    ELSE Returns(GetRackCoordinates(RackGrid(8, 1, 0 - 40, start_y, 1216, start_y),
                                    At(IntOf(k.suffix) - 1, 0)))

CoordinatesOf(r, k) ==
    CASE r = "PLATE" -> GetWellCoordinates(k)
      [] r = "TIPS" -> GetTipCoordinates(k)
      [] r = "FALCON" -> GetFalconCoordinates(k)
      [] r = "4ML" -> Get4mlCoordinates(k)
      [] r = "FILTER_EPPI" -> Get1x8RackCoordinates(k, "B", 631)
      [] r = "EPPI" -> Get1x8RackCoordinates(k, "C", 486)
      [] r = "WASH" -> GetWashCoordinates(k)

InitKeys ==
    /\ InitWith(MaxLines)
    /\ total_vol = 0 /\ is_volatile = FALSE /\ remaining_vol = 0 /\ batches = <<>>
    /\ NoWashPlan /\ NoLookup /\ NoLeg /\ NoReader /\ NoWashCycle
    /\ \/ rack \in LetterRacks /\ rack_key \in Keys
       \/ rack = "WASH" /\ rack_key \in WashNames
    /\ answer = [out |-> "none", xy |-> <<0, 0>>]

\* The call of the rack's coordinate function with the key.
ResolveKey ==
    /\ answer.out = "none"
    /\ answer' = CoordinatesOf(rack, rack_key)
    /\ UNCHANGED <<rack, rack_key, core, split, wash, lookup, leg, reader, washcycle>>

NextKeys == ResolveKey

SpecKeys == InitKeys /\ [][NextKeys]_vars

\* ---- one wash-source group of a wash cycle ----
MaxGroup == 2
MaxWashHundreds == 8
WashCycleVolumes == {100 * k : k \in 1..MaxWashHundreds}
WashCycleGroups ==
    [n : 1..MaxGroup, vol : WashCycleVolumes, src_mod : LegModules, dest_mod : LegModules,
     has_tip : BOOLEAN]

MoveY == [cmd |-> "G0", axis |-> "Y", z |-> 0, rel |-> FALSE]

\* _get_pick_tip_commands: travel to the rack, down to Z_PICK, up to Z_TRAVEL
PickTipCommands(start_module) ==
    GetSmartTravelGcode("TIPS", start_module) \o <<MoveZ(AbsZ(950)), MoveZ(AbsZ(1850))>>

\* _get_eject_tip_commands
EjectTipCommands ==
    <<G90Line, MoveZ(AbsZ(GLOBAL_SAFE_Z_OFFSET)), MoveXY, MoveXY, MoveZ(AbsZ(1900)),
      MoveZ(AbsZ(1602)), MoveY, MoveZ(AbsZ(1900)), MoveZ(AbsZ(GLOBAL_SAFE_Z_OFFSET))>>

\* collect_vol = min(vol + 50.0, MAX_PIPETTE_VOL - air_gap_ul)
CollectVol(vol) == Min(vol + 50, MAX_PIPETTE_VOL - AIR_GAP_UL)

\* A variant of cmds_src that mixes before it dispenses the wash liquid.
WashSourceCmdsMixFirst(g) ==
    GetSmartTravelGcode(g.src_mod, "WASH") \o
    <<MoveZ(AbsZ(Z_ASPIRATE(g.src_mod))),
      PipTo(AIR_GAP_UL + 200), PipTo(AIR_GAP_UL), PipTo(AIR_GAP_UL + 200), PipTo(AIR_GAP_UL),
      MoveZ(AbsZ(Z_DISPENSE(g.src_mod))), PipTo(AIR_GAP_UL),
      PipTo(AIR_GAP_UL + CollectVol(g.vol)), MoveZ(AbsZ(Z_SAFE(g.src_mod)))>>

\* _perform_wash_cycle, cmds_src: to the original source, dispense the wash
\* liquid, mix twice with mix_vol = 200, collect.
WashSourceCmds(g) ==
    GetSmartTravelGcode(g.src_mod, "WASH") \o
    <<MoveZ(AbsZ(Z_DISPENSE(g.src_mod))), PipTo(AIR_GAP_UL),
      MoveZ(AbsZ(Z_ASPIRATE(g.src_mod))),
      PipTo(AIR_GAP_UL + 200), PipTo(AIR_GAP_UL), PipTo(AIR_GAP_UL + 200), PipTo(AIR_GAP_UL),
      PipTo(AIR_GAP_UL + CollectVol(g.vol)), MoveZ(AbsZ(Z_SAFE(g.src_mod)))>>

\* A command list passed to _send_lines_with_ok, with the part of the wash
\* cycle that built it and the module it travels to.
SentList(by, at, cmds) == [by |-> by, at |-> at, cmds |-> cmds]

InitWashCycle ==
    /\ InitWith(MaxLines)
    /\ total_vol = 0 /\ is_volatile = FALSE /\ remaining_vol = 0 /\ batches = <<>>
    /\ NoWashPlan /\ NoLookup /\ NoLeg /\ NoReader /\ NoKeys
    /\ wgroup \in WashCycleGroups
    /\ wlists = <<>>
    /\ wcpc = "group"

\* run_seq: len(group) > 1, the group goes to _perform_batch_wash_distribution.
BatchBranch ==
    /\ wcpc = "group" /\ wgroup.n # 1
    /\ wcpc' = "batch"
    /\ UNCHANGED <<wgroup, wlists, core, split, wash, lookup, leg, reader, rackcall>>

\* _perform_wash_cycle (start_module is "EJECT"): no fresh tip, return "EJECT"
WashCycleNoTip ==
    /\ wcpc = "group" /\ wgroup.n = 1 /\ ~wgroup.has_tip
    /\ wcpc' = "done"
    /\ UNCHANGED <<wgroup, wlists, core, split, wash, lookup, leg, reader, rackcall>>

\* the pick list
WashCyclePick ==
    /\ wcpc = "group" /\ wgroup.n = 1 /\ wgroup.has_tip
    /\ wlists' = Append(wlists, SentList("pick", "TIPS", PickTipCommands("EJECT")))
    /\ wcpc' = "picked"
    /\ UNCHANGED <<wgroup, core, split, wash, lookup, leg, reader, rackcall>>

\* cmds: air gap, to the wash source, aspirate vol
WashCycleLoad ==
    /\ wcpc = "picked"
    /\ wlists' = Append(wlists, SentList("cmds", "WASH",
                    <<PipTo(AIR_GAP_UL)>> \o GetSmartTravelGcode("WASH", "TIPS") \o
                    <<MoveZ(AbsZ(Z_ASPIRATE("WASH"))), PipTo(AIR_GAP_UL + wgroup.vol),
                      MoveZ(AbsZ(Z_SAFE("WASH")))>>))
    /\ wcpc' = "loaded"
    /\ UNCHANGED <<wgroup, core, split, wash, lookup, leg, reader, rackcall>>

\* cmds_src
WashCycleSource ==
    /\ wcpc = "loaded"
    /\ wlists' = Append(wlists, SentList("cmds_src", "SRC", WashSourceCmds(wgroup)))
    /\ wcpc' = "mixed"
    /\ UNCHANGED <<wgroup, core, split, wash, lookup, leg, reader, rackcall>>

\* cmds_dest: to the destination, blow out, back to the air gap
WashCycleDest ==
    /\ wcpc = "mixed"
    /\ wlists' = Append(wlists, SentList("cmds_dest", "DEST",
                    GetSmartTravelGcode(wgroup.dest_mod, wgroup.src_mod) \o
                    <<MoveZ(AbsZ(Z_DISPENSE(wgroup.dest_mod))), PipTo(100),
                      MoveZ(AbsZ(Z_SAFE(wgroup.dest_mod))), PipTo(AIR_GAP_UL)>>))
    /\ wcpc' = "delivered"
    /\ UNCHANGED <<wgroup, core, split, wash, lookup, leg, reader, rackcall>>

\* the eject list
WashCycleEject ==
    /\ wcpc = "delivered"
    /\ wlists' = Append(wlists, SentList("eject", "EJECT", EjectTipCommands))
    /\ wcpc' = "done"
    /\ UNCHANGED <<wgroup, core, split, wash, lookup, leg, reader, rackcall>>

NextWashCycle ==
    \/ BatchBranch
    \/ WashCycleNoTip
    \/ WashCyclePick
    \/ WashCycleLoad
    \/ WashCycleSource
    \/ WashCycleDest
    \/ WashCycleEject

SpecWashCycle == InitWashCycle /\ [][NextWashCycle]_vars

\* ---------------------------------------------------------------- properties
\* The step of thread t that writes a line to the serial link.
Writes(t) == pc[t] = "wr" /\ pc'[t] = "wait"

\* The thread is before the write of line idx[t] of its current list.
BeforeWrite(t) == pc[t] \in {"chk", "sleep", "clr", "wr"}

\* C1: at any moment at most one command line written by a sequence thread
\* (Task, manual action, recovery) is awaiting its acknowledgement, that is,
\* unacknowledged and not timed out.
C1_OneCommandInFlight == Cardinality(InFlight) <= 1

\* C2: once a command of a Task got no acknowledgement within its timeout, the
\* Task writes no further command line, of the current list or of a later one.
C2_NoWriteAfterTimeout == [][hadTimeout["task"] => ~Writes("task")]_vars

\* C3: once abort_sequence was invoked while a Task was executing, the Task's
\* thread writes no further command line.
C3_NoWriteAfterAbort == [][abortSeen["task"] => ~Writes("task")]_vars

\* C4: a thread sets a tip's inventory entry to consumed only if the pick list
\* it sent for that tip ended with every line acknowledged.
C4_ConsumeOnlyAckedPick ==
    [][\A t \in Threads :
          (pc[t] = "instr" /\ Call(t).op = "consume" /\ ip'[t] # ip[t])
              => pickEnd[t] = "complete"]_vars

\* C5: an M114 poll is written only when no sequence thread is between the
\* write of a command line and that line's acknowledgement or timeout.
C5_PollOnlyWhenNoneAwaiting ==
    [][(Len(pending') = Len(pending) + 1 /\ pending'[Len(pending')].src = "poll")
          => \A t \in Threads : ~Awaiting(t)]_vars

\* C6: once a recovery worker (eject, park) has written a command line, the
\* Task that was aborted writes no further command line.
C6_RecoveryAfterTask ==
    [][(abortSeen["task"] /\ (wrote["eject"] \/ wrote["park"]))
          => ~Writes("task")]_vars

\* C7: within one command list the lines written are lines 1, 2, ... in order,
\* each once (so a line that timed out is not written again), and a thread is
\* past line k only if ok_event was set after the clear that preceded the
\* write of line k.
C7_InOrderOnceAfterAck ==
    \A t \in Threads :
        /\ \A i \in 1..Len(sent[t]) : sent[t][i] = i
        /\ BeforeWrite(t) => Len(sent[t]) = idx[t] - 1
        /\ pc[t] = "wait" => Len(sent[t]) = idx[t]
        /\ (pc[t] \in {"chk", "sleep"} /\ idx[t] > 1) => ackSet[t]
        /\ (pc[t] = "fin" /\ outcome[t] = "complete") => ackSet[t]

\* A list whose second line was written after the first was acknowledged, in a
\* run of which a line timed out.
C7_Witness == \E t \in Threads : sent[t] = <<1, 2>> /\ hadTimeout[t] /\ ackSet[t]

\* C8, as stated: while is_paused is set no sequence writes a command line.
C8_NoWriteWhilePaused == \A t \in Threads : wroteInPause[t] = 0

\* C8, amended: while is_paused is set a sequence writes at most one command
\* line (a line whose pause test it passed before the flag was set); the line
\* it is held before is the next unsent line, none skipped and none repeated.
C8_PauseHoldsNextLine ==
    \A t \in Threads :
        /\ wroteInPause[t] <= 1
        /\ BeforeWrite(t) =>
              /\ idx[t] = Len(sent[t]) + 1
              /\ \A i \in 1..Len(sent[t]) : sent[t][i] = i

\* A sequence that wrote line 1 while is_paused was set, had it acknowledged
\* and is now held in the pause loop before line 2.
C8_Witness ==
    \E t \in Threads :
        /\ is_paused /\ pc[t] = "sleep" /\ idx[t] = 2
        /\ wroteInPause[t] = 1 /\ sent[t] = <<1>>

\* C9: once _find_next_available_tip has returned no tip in the middle of a
\* Task, the Task writes no further command line.
C9_StopWhenNoTip == [][noTipSeen["task"] => ~Writes("task")]_vars

\* C10: a tip-needing sequence submitted while no tip is fresh writes no
\* command line at all.
C10_NoWriteWithoutTip ==
    \A t \in {"task", "manual"} : noTipAtStart[t] => ~wrote[t]

\* The command lists that hold an aspirate command: the load of a transfer,
\* the loads and mixes of a wash, the aspirate of smart_pipette_sequence.
AspirateKinds == {"load", "washload", "washsrc", "distribute", "mixxfer", "aspirate"}

\* C11: the first line of a tip-pick command list is never written while a
\* tip picked earlier (its pick list acknowledged in full) has not been ejected
\* (no line of an eject list written since).
C11_NoPickWhileTipLoaded ==
    [][\A t \in Threads :
          (Writes(t) /\ Call(t).kind = "pick" /\ idx[t] = 1) => ~tipOn]_vars

\* C12: a line of a command list that holds an aspirate command is written
\* only while a tip is loaded: a pick list was acknowledged in full and no
\* line of an eject list was written since.
C12_AspirateOnlyWithTip ==
    [][\A t \in Threads : (Writes(t) /\ Call(t).kind \in AspirateKinds) => tipOn]_vars

\* C13: current_pipette_volume changes only in a step of a thread none of
\* whose lines timed out in this run.
C13_VolumeOnlyAfterAck ==
    [][current_pipette_volume' # current_pipette_volume
          => \E t \in Threads : pc[t] = "fin" /\ pc'[t] # "fin" /\ ~hadTimeout[t]]_vars

\* C14: last_known_module changes only in a step of a thread that has sent a
\* command list, each line of which was acknowledged.
C14_ModuleOnlyAfterMove ==
    [][last_known_module' # last_known_module
          => \E t \in Threads :
                /\ pc[t] \in {"fin", "instr"} /\ ip'[t] = ip[t] + 1
                /\ wrote[t] /\ ~hadTimeout[t]]_vars

\* C15: in every state MIN_PIPETTE_VOL <= current_pipette_volume <=
\* MAX_PIPETTE_VOL.
C15_VolumeInRange ==
    MIN_PIPETTE_VOL <= current_pipette_volume /\ current_pipette_volume <= MAX_PIPETTE_VOL

\* The step in which an error outcome of thread t arises: a list ends by a
\* timeout, a write error or an abort, or a tip search finds no tip.
ErrorOutcomes == {"timeout", "senderror", "aborted"}
ErrorArises(t) ==
    \/ outcome'[t] \in ErrorOutcomes /\ outcome[t] \notin ErrorOutcomes
    \/ noTipSeen'[t] /\ ~noTipSeen[t]

\* C18: the step in which an error outcome arises puts an event on rx_queue
\* that holds the text of the failing command line.
C18_ErrorEventNamesCommand ==
    [][\A t \in Threads :
          ErrorArises(t) => \E i \in DOMAIN put'[t] : put'[t][i].line # NoLine]_vars

\* The Task of thread t plans an E move to a logical pipette volume outside
\* [MIN_PIPETTE_VOL, MAX_PIPETTE_VOL].
PlansOutOfRange(t) ==
    \E i \in DOMAIN prog[t] : \E v \in prog[t][i].target : ~InPipetteRange(v)

\* C16: a Task that plans a logical pipette volume (air gap + load + trash)
\* outside [MIN_PIPETTE_VOL, MAX_PIPETTE_VOL] writes no command line.
C16_OutOfRangeWritesNothing == \A t \in Threads : PlansOutOfRange(t) => ~wrote[t]

\* The Task of thread t names a position that does not resolve for its module.
NamesUnresolved(t) ==
    \E i \in DOMAIN prog[t] : \E c \in prog[t][i].pos : GetCoordsFromCombo(c) # "ok"

\* C17: a Task that names a position that does not resolve (unknown module
\* prefix, or a key outside the module's positions) writes no command line.
C17_UnresolvedWritesNothing == \A t \in Threads : NamesUnresolved(t) => ~wrote[t]

\* The step in which _find_next_available_tip returns to thread t.
Finds(t) == pc[t] = "instr" /\ Call(t).op = "find" /\ ip'[t] # ip[t]

\* C19: _find_next_available_tip returns no key exactly when no entry of
\* tip_inventory is fresh, and otherwise the fresh key that is first in
\* row-major order; so a key marked consumed is not returned, and an entry
\* goes from consumed to fresh only by toggle_tip_state / reset_all_tips_fresh.
C19_FirstFreshRowMajor ==
    [][/\ \A t \in Threads :
             Finds(t) =>
                /\ tipKey'[t] = NoTip <=> \A k \in TipKeys : ~tip_inventory[k]
                /\ tipKey'[t] # NoTip =>
                      /\ tip_inventory[tipKey'[t]]
                      /\ \A j \in TipKeys :
                            tip_inventory[j] => j = tipKey'[t] \/ RowMajorLess(tipKey'[t], j)
       /\ \A k \in TipKeys : (~tip_inventory[k] /\ tip_inventory'[k]) => ui' = ui + 1]_vars

\* The second line of a Task was given the second key of the first row, the
\* first key being consumed and the first key of the second row fresh.
C19_Witness ==
    /\ tipKey["task"] = <<1, 2>> /\ ip["task"] > 3
    /\ ~tip_inventory[<<1, 1>>] /\ tip_inventory[<<2, 1>>]

\* The batch loop of the transfer line has ended.
LoopDone == ~(remaining_vol > Tolerance)

\* C20, as stated: for a line with V > 0 the batch volumes sum to V, each is
\* greater than 0 and at most the cap of the liquid class.
C20_BatchesSumToV ==
    (LoopDone /\ total_vol > 0) =>
        /\ SumSeq(batches) = total_vol
        /\ \A i \in DOMAIN batches :
              batches[i] > 0 /\ batches[i] <= MaxBatch(is_volatile)

\* C20, amended: for a line with V > 0 every batch volume is greater than 0
\* and at most the cap of the liquid class, the batches never sum to more
\* than V, and when the loop has ended they sum to V less a rest of at most
\* 0.0001 uL, which is not transferred; each batch but the last is the cap.
C20_BatchesSumToVWithinTolerance ==
    total_vol > 0 =>
        /\ SumSeq(batches) + remaining_vol = total_vol
        /\ remaining_vol >= 0
        /\ LoopDone => total_vol - SumSeq(batches) <= Tolerance
        /\ \A i \in DOMAIN batches :
              /\ batches[i] > 0 /\ batches[i] <= MaxBatch(is_volatile)
              /\ i < Len(batches) => batches[i] = MaxBatch(is_volatile)

\* A standard line of 1600.0001 uL: two batches of 800 uL, 0.0001 uL left.
C20_Witness ==
    /\ LoopDone /\ ~is_volatile /\ Len(batches) = 2
    /\ remaining_vol = Tolerance /\ total_vol = 2 * MAX_STD_BATCH + Tolerance

\* The cap M of the line's liquid class: 500 uL when volatile, 800 uL otherwise.
ClaimCap == IF is_volatile THEN 500 * UnitsPerUL ELSE 800 * UnitsPerUL

\* ceil(a / b) for a >= 0, b > 0
CeilDiv(a, b) == (a + b - 1) \div b

\* C30, as stated: for a line with V > 0 and cap M the number of batches is
\* ceil(V / M), every batch but the last is M and the last is the remainder
\* V - (n - 1) * M.
C30_GreedySplit ==
    (LoopDone /\ total_vol > 0) =>
        /\ Len(batches) = CeilDiv(total_vol, ClaimCap)
        /\ \A i \in DOMAIN batches :
              IF i < Len(batches) THEN batches[i] = ClaimCap
              ELSE batches[i] = total_vol - (Len(batches) - 1) * ClaimCap

\* C30, amended: a rest of at most 0.0001 uL is not a batch.  The number of
\* batches is ceil((V - 0.0001) / M), every batch but the last is M, and the
\* last is what is left of V after the earlier batches, less the rest of at
\* most 0.0001 uL that is dropped; 1500 uL with cap 800 is 800 then 700.
C30_GreedySplitUpToTolerance ==
    /\ (LoopDone /\ total_vol > 0) =>
          /\ Len(batches) = CeilDiv(total_vol - Tolerance, ClaimCap)
          /\ \A i \in DOMAIN batches :
                IF i < Len(batches) THEN batches[i] = ClaimCap
                ELSE /\ batches[i] = total_vol - (Len(batches) - 1) * ClaimCap - remaining_vol
                     /\ remaining_vol \in 0..Tolerance
    /\ (LoopDone /\ total_vol = 1500 * UnitsPerUL /\ ~is_volatile) =>
          batches = <<800 * UnitsPerUL, 700 * UnitsPerUL>>

\* The standard line of 1500 uL after its loop: 800 uL, then 700 uL.
C30_Witness ==
    /\ LoopDone /\ total_vol = 1500 * UnitsPerUL /\ ~is_volatile
    /\ Len(batches) = 2 /\ batches[2] = 700 * UnitsPerUL

\* C21, as stated: when the distribution of a wash group is over the
\* dispense volumes sum to the sum of the needs, and the dispense volumes of
\* one load sum to at most the load capacity MAX_PIPETTE_VOL - air gap.
C21_WashSumsToNeeds ==
    /\ wpc = "done" => disp_sum = SumSeq(PlanNeeds(wash_vols))
    /\ SumSeq(cycle_disp) <= (MAX_PIPETTE_VOL - AIR_GAP_UL) * UnitsPerUL

\* C21, amended: what is dispensed and what is still owed add up to the
\* needs at every moment; when the distribution is over every line is owed
\* at most 0.0001 uL, and so are all lines together; every dispense is more
\* than 0 and the dispenses of one load sum to at most the load capacity.
C21_WashSumsToNeedsWithinTolerance ==
    /\ wpc # "done" \/ wash_vols # <<>> =>
          disp_sum + SumSeq(remaining) = SumSeq(PlanNeeds(wash_vols))
    /\ (wpc = "done" /\ wash_vols # <<>>) =>
          /\ \A i \in DOMAIN remaining : remaining[i] \in 0..Tolerance
          /\ SumSeq(remaining) <= Tolerance
    /\ \A i \in DOMAIN cycle_disp : cycle_disp[i] > 0
    /\ SumSeq(cycle_disp) <= (MAX_PIPETTE_VOL - AIR_GAP_UL) * UnitsPerUL

\* A group of two lines that took more than one load, distribution over.
C21_Witness ==
    /\ wpc = "done" /\ Len(PlanNeeds(wash_vols)) = 2
    /\ disp_sum > (MAX_PIPETTE_VOL - AIR_GAP_UL) * UnitsPerUL
    /\ disp_sum = SumSeq(PlanNeeds(wash_vols))

\* What the lookup returned, relative to the anchor and the first corner,
\* and the two spans of the rack.
RelX == resolved[1] - PIN_X - grid.start_x
RelY == resolved[2] - PIN_Y - grid.start_y
SpanX == grid.end_x - grid.start_x
SpanY == grid.end_y - grid.start_y
Abs(a) == IF a < 0 THEN 0 - a ELSE a

\* C22, as stated: the key at (r, c) resolves exactly to anchor + first
\* corner + (c / (C - 1) * dx, r / (R - 1) * dy); so the first-corner key
\* resolves to anchor + first corner and the last-corner key to anchor +
\* last corner.
C22_InterpolationExact ==
    resolved # <<>> =>
        /\ grid.num_cols > 1 => RelX * (grid.num_cols - 1) = well.col_idx * SpanX
        /\ grid.num_rows > 1 => RelY * (grid.num_rows - 1) = well.row_idx * SpanY

\* C22, amended: the first-corner key resolves exactly to anchor + first
\* corner; any key at (r, c) resolves to anchor + first corner + (c * step_x,
\* r * step_y), where a step is the rounded quotient span / (count - 1), so
\* the key is off c / (C - 1) * dx by at most the rounding error of the step
\* times c (the last-corner key included), and exact when the quotient is;
\* a rack of one row or one column stays on the first corner in that
\* direction.  With corners (0, 0) and (110, 70) on the 8 x 12 plate, D6
\* resolves to relative (50, 30).
C22_InterpolationUpToRounding ==
    resolved # <<>> =>
        /\ well.col_idx = 0 => RelX = 0
        /\ well.row_idx = 0 => RelY = 0
        /\ IF grid.num_cols > 1
           THEN 2 * Abs(RelX * (grid.num_cols - 1) - well.col_idx * SpanX)
                    <= well.col_idx * (grid.num_cols - 1)
           ELSE RelX = 0
        /\ IF grid.num_rows > 1
           THEN 2 * Abs(RelY * (grid.num_rows - 1) - well.row_idx * SpanY)
                    <= well.row_idx * (grid.num_rows - 1)
           ELSE RelY = 0
        /\ grid.num_cols > 1 /\ SpanX % (grid.num_cols - 1) = 0 =>
               RelX * (grid.num_cols - 1) = well.col_idx * SpanX
        /\ grid.num_rows > 1 /\ SpanY % (grid.num_rows - 1) = 0 =>
               RelY * (grid.num_rows - 1) = well.row_idx * SpanY
        /\ ( /\ grid.num_cols = 12 /\ grid.num_rows = 8
             /\ grid.start_x = 0 /\ grid.start_y = 0
             /\ grid.end_x = 110 * UnitsPerMM /\ grid.end_y = 70 * UnitsPerMM
             /\ well.col_idx = 5 /\ well.row_idx = 3 ) =>
               resolved = <<PIN_X + 50 * UnitsPerMM, PIN_Y + 30 * UnitsPerMM>>

\* D6 of the 8 x 12 plate with corners (0, 0) and (110, 70), resolved.
C22_Witness ==
    /\ resolved # <<>>
    /\ grid.num_cols = 12 /\ grid.num_rows = 8
    /\ grid.start_x = 0 /\ grid.start_y = 0
    /\ grid.end_x = 110 * UnitsPerMM /\ grid.end_y = 70 * UnitsPerMM
    /\ well.col_idx = 5 /\ well.row_idx = 3
    /\ RelX = 50 * UnitsPerMM /\ RelY = 30 * UnitsPerMM

\* C23: when no pipette move runs and the accepted (aspirate d, dispense d)
\* requests so far cancel out, current_pipette_volume is what it was before
\* them.
C23_NetZeroRestoresVolume ==
    ( /\ \A w \in PipetteThreads : pc[w] \in {"idle", "done"}
      /\ asked_vol = DEFAULT_TARGET_UL )
        => current_pipette_volume = DEFAULT_TARGET_UL

\* The wait of thread t is released: ok_event.wait returned True.
Released(t) == pc[t] = "wait" /\ idx'[t] = idx[t] + 1

\* The line thread t waits for is still unanswered by the device.
OwnLineUnanswered(t) ==
    \E i \in DOMAIN pending : pending[i].src = t /\ ~pending[i].dead

\* C24: an acknowledgement that releases a waiting command is the device's
\* answer to that command: when a wait is released the command it waited
\* for has been answered, not an M114 of the poller, a raw line, a command
\* of another thread or a command that had timed out.
C24_ReleasedByOwnAck ==
    [][\A t \in Threads : Released(t) => ~OwnLineUnanswered(t)]_vars

\* C25: whenever a line with absolute target coordinates is written, the
\* most recent positioning-mode command written is G90.
C25_AbsoluteMoveInAbsoluteMode ==
    [][\A t \in Threads :
          (Writes(t) /\ LineType(Call(t), idx[t]) = "abs") => ~relMode]_vars

\* C26: during abort recovery a park command is written only when the
\* eject run_seq has ended, all its commands acknowledged, and the eject and
\* the park run_seq never have a command in flight at the same time.
C26_ParkAfterEject ==
    [][ /\ Writes("park") => (pc["eject"] = "done" /\ ~hadTimeout["eject"])
        /\ ~(\E i, j \in InFlight :
                 pending[i].src = "eject" /\ pending[j].src = "park") ]_vars

\* Thread t has been handed a tip key and has not marked it used yet.
HoldsTip(t) ==
    /\ pc[t] \notin {"idle", "done"}
    /\ tipKey[t] # NoTip
    /\ tip_inventory[tipKey[t]]

\* C27: no tip key is handed to two pick operations: two sequences never
\* hold the same key found by _find_next_available_tip at the same time.
C27_TipKeyHandedOnce ==
    \A t, u \in Threads :
        (t # u /\ HoldsTip(t) /\ HoldsTip(u)) => tipKey[t] # tipKey[u]

\* The device is in relative mode before line i of list l, when it was in
\* absolute mode before the list.
RECURSIVE RelBefore(_, _)
RelBefore(l, i) ==
    IF i <= 1 THEN FALSE
    ELSE CASE l[i - 1].cmd = "G91" -> TRUE
           [] l[i - 1].cmd = "G90" -> FALSE
           [] OTHER -> RelBefore(l, i - 1)

\* C28: in the lists of a volatile transfer every G91 is followed, in the
\* same list, by compensated relative moves and then G90 with no other
\* command between; the lists of a transfer that is not volatile have no
\* G91; every list leaves the device in absolute mode.
C28_RelativeSegmentsClosed ==
    \A n \in DOMAIN lists :
        LET l == lists[n] IN
        /\ \A i \in DOMAIN l :
              l[i].cmd = "G91" =>
                  \E j \in (i + 2)..Len(l) :
                      /\ l[j].cmd = "G90"
                      /\ \A k \in (i + 1)..(j - 1) : l[k].rel /\ l[k].cmd = "G1"
        /\ \A i \in DOMAIN l : l[i].rel <=> RelBefore(l, i) /\ l[i].cmd \notin {"G90", "G91"}
        /\ ~xfer.is_volatile => \A i \in DOMAIN l : l[i].cmd # "G91"
        /\ ~RelBefore(l, Len(l) + 1)

\* A volatile transfer, all three lists sent.
C28_Witness ==
    /\ xpc = "done" /\ xfer.is_volatile /\ Len(lists) = 3
    /\ lists[2][1].cmd = "G91" /\ lists[2][5].cmd = "G90"
    /\ lists[3][1].cmd = "G91" /\ lists[3][3].cmd = "G90"

\* The leg from module a to module b as C29 states it; the travel height is
\* the shared low plane when both modules are small vial modules, the global
\* safe Z otherwise.
StatedLeg(a, b) ==
    IF a = b THEN <<MoveZ(PIN_Z + Z_SAFE(b)), MoveXY>>
    ELSE <<MoveZ(IF {a, b} \subseteq SMALL_VIAL_MODULES
                 THEN PIN_Z + Z_SAFE("4ML") ELSE PIN_Z + GLOBAL_SAFE_Z_OFFSET),
           MoveXY, MoveZ(PIN_Z + Z_SAFE(b))>>

\* C29: every leg between two locations has the stated shape: the leg of a
\* smart travel (the list after its G90), the leg to the source (the lines
\* of cmds between the first pipette move and the descent to the aspirate
\* height) and the leg from the source to the destination (cmds_std after
\* the lift out of the source).
C29_LegShape ==
    /\ xpc = "moved" => Tail(lists[1]) = StatedLeg(xfer.start_module, xfer.src_mod)
    /\ (xpc \in {"loaded", "travelled", "done"}) =>
          LET want == StatedLeg(xfer.start_module, xfer.src_mod) IN
          /\ SubSeq(lists[1], 2, 1 + Len(want)) = want
          /\ lists[1][2 + Len(want)] = MoveZ(PIN_Z + Z_ASPIRATE(xfer.src_mod))
    /\ (xpc \in {"travelled", "done"} /\ ~xfer.is_volatile) =>
          Tail(lists[2]) = StatedLeg(xfer.src_mod, xfer.dest_mod)

\* C31: the reader sets the ack signal for a line exactly when its trimmed text
\* starts with "ok" in any case and holds no busy marker; a line with the busy
\* marker sets no ack, is not parsed and is not forwarded; a line with X:, Y:
\* and Z: is parsed as telemetry; every other non-empty line is put on rx_queue.
Trimmed == Strip(rx_line)
HasBusy == Contains(rx_line, "echo:busy")
HasXYZ == Contains(rx_line, "X:") /\ Contains(rx_line, "Y:") /\ Contains(rx_line, "Z:")
OkStart ==
    /\ Len(Trimmed) >= 2
    /\ Trimmed[1] \in {"o", "O"}
    /\ Trimmed[2] = "k"
C31_ReaderClassifies ==
    [][(rx_pc = "line" /\ rx_pc' = "wait") =>
          /\ handled'.ack <=> (OkStart /\ ~HasBusy)
          /\ handled'.ack => ok_event'
          /\ ~handled'.ack => (ok_event' = ok_event)
          /\ HasBusy => (~handled'.parsed /\ rx_queue' = rx_queue)
          /\ (HasXYZ /\ ~HasBusy) => handled'.parsed
          /\ (Trimmed # <<>> /\ ~HasBusy /\ ~HasXYZ /\ ~OkStart)
                => rx_queue' = Append(rx_queue, Printer(Trimmed))]_vars
C31_Witness ==
    /\ rx_pc = "wait" /\ handled.ack /\ ok_event
    /\ Head(rx_line) = " " /\ Contains(rx_line, "O")

\* C32: "Sequence Complete" is published for a command list only if every line
\* of the list was written and acknowledged, not for a list that ended by
\* timeout, send error or abort.
C32_CompleteOnlyWhenAllAcked ==
    [][\A t \in Threads :
          (pc[t] = "fin" /\ ip'[t] = ip[t] + 1
             /\ put'[t] = <<Event("Sequence Complete", NoLine)>>)
          => outcome[t] = "complete"]_vars

\* C33: when a command list of a completed operation is followed by an
\* assignment to current_pipette_volume, the value stored is the logical
\* volume of the last E position the list commanded (E = -volume *
\* STEPS_PER_UL).  Call(t).target holds the volume of the list's E move where
\* the run_seq computes it from the Task, as the dispenses of an aliquot line do.
C33_StoredVolumeIsLastE ==
    [][\A t \in Threads :
          (/\ pc[t] = "fin" /\ ip'[t] = ip[t] + 1
           /\ outcome[t] = "complete"
           /\ Call(t).vol # NoVol /\ Call(t).target # {})
          => current_pipette_volume' \in Call(t).target]_vars

\* C34: _perform_batch_wash_distribution terminates for every group of
\* positive needs, whatever load capacity it is passed: the loop does not run
\* forever sending commands.
C34_WashTerminates == <>(wpc = "done")

\* The needs of the plan entries, and the number of lines of the group whose
\* need is positive.
Needs == PlanNeeds(wash_vols)
PositiveLines == Cardinality({j \in DOMAIN wash_vols : wash_vols[j] > 0})
Increasing(q) == \A i, j \in DOMAIN q : i < j => q[i] < q[j]

\* C35, as stated: when the distribution is over each recipient has received
\* exactly its own need, never more; within a load the recipients are served
\* in their original order; a line whose need is not positive is no recipient.
C35_EachGetsItsNeed ==
    /\ (wpc = "done" /\ wash_vols # <<>>) => \A i \in DOMAIN got : got[i] = Needs[i]
    /\ \A i \in DOMAIN got : got[i] <= Needs[i]
    /\ Increasing(cycle_idx)
    /\ Len(got) = PositiveLines

\* C35, amended: what a recipient has received and what it is still owed add
\* up to its need at every moment, so it never receives more; when the
\* distribution is over it is owed at most 0.0001 uL; within a load the
\* recipients are served in their original order, each at most once; a line
\* whose need is not positive is no recipient.
C35_EachGetsItsNeedWithinTolerance ==
    /\ wash_vols # <<>> =>
          /\ DOMAIN got = DOMAIN remaining
          /\ \A i \in DOMAIN got : got[i] + remaining[i] = Needs[i] /\ got[i] <= Needs[i]
          /\ wpc = "done" => \A i \in DOMAIN got : remaining[i] \in 0..Tolerance
    /\ Increasing(cycle_idx)
    /\ Len(got) = PositiveLines
    /\ \A i \in DOMAIN cycle_idx : wash_vols # <<>> /\ Needs[cycle_idx[i]] > 0

\* Two recipients, the first served by two loads, the second by the last
\* load after the first; distribution over.
C35_Witness ==
    /\ wpc = "done" /\ Len(got) = 2
    /\ got = Needs /\ got[1] > MAX_WASH_LOAD
    /\ cycle_idx = <<1, 2>>

\* The rows of a rack, and a key that is malformed for it: the row letter is
\* not one of the rack's rows, or the column suffix is not a number; for the
\* wash station, a name that is none of its positions.
RackRows(r) ==
    CASE r = "PLATE" -> {"A", "B", "C", "D", "E", "F", "G", "H"}
      [] r = "TIPS" -> {"A", "B", "C", "D", "E", "F"}
      [] r = "FALCON" -> {"A", "B"}
      [] r = "4ML" -> {"A"}
      [] r = "FILTER_EPPI" -> {"B"}
      [] r = "EPPI" -> {"C"}
Malformed ==
    IF rack = "WASH" THEN rack_key \notin {"Wash A", "Wash B", "Wash C", "Trash"}
    ELSE rack_key.row \notin RackRows(rack) \/ rack_key.suffix \notin {"1", "3", "12"}

\* C36: for every rack resolver a malformed key resolves to the sentinel
\* (0, 0) and no exception is raised.
C36_MalformedKeyGivesSentinel ==
    (answer.out # "none" /\ Malformed) => (answer.out = "value" /\ answer.xy = <<0, 0>>)

\* The step in which a sequence builds its command list and starts its worker.
Plans(t) == pc[t] = "idle" /\ pc'[t] = "instr"

\* C37: building a command list leaves the tracker unchanged: the planning
\* part of a sequence, which runs before its worker sends the first command,
\* does not modify tip_inventory, current_pipette_volume or last_known_module.
C37_PlanningLeavesTracker ==
    [][(\E t \in Threads : Plans(t)) =>
          UNCHANGED <<tip_inventory, current_pipette_volume, last_known_module>>]_vars

\* C38, the received half: every non-empty line received from the device is
\* published to the event sink: the reader puts its text on rx_queue, from
\* where it is logged.
C38_ReceivedLinePublished ==
    [][(rx_pc = "line" /\ rx_pc' = "wait" /\ Trimmed # <<>>)
          => rx_queue' = Append(rx_queue, Printer(Trimmed))]_vars

\* C38: every line written to the serial link, by a sequence, by the poller
\* or by a raw send, is published to the event sink: the step that writes the
\* line puts the event ">> line" on rx_queue.
C38_WrittenLinePublished ==
    [][Len(pending') > Len(pending) =>
          \E t \in Threads :
             /\ pending'[Len(pending')].src = t
             /\ put'[t] = <<Event(">>", idx[t])>>]_vars

\* The logical volumes the E moves of a command list go to, in order.
RECURSIVE EVols(_)
EVols(cmds) ==
    IF cmds = <<>> THEN <<>>
    ELSE (IF Head(cmds).axis = "E" THEN <<Head(cmds).e>> ELSE <<>>) \o EVols(Tail(cmds))

\* The parts of a wash cycle in the order stated.
CycleOrder == <<"pick", "cmds", "cmds_src", "cmds_dest", "eject">>
CyclePlaces == <<"TIPS", "WASH", "SRC", "DEST", "EJECT">>

\* C39: a wash-source group with one recipient is handled by
\* _perform_wash_cycle, whose commands come in this order: pick a fresh tip,
\* load the wash volume at the wash source, dispense it into the original
\* source, mix in place, re-aspirate, dispense at the destination, eject the
\* tip; a group with two or more recipients goes to batch distribution.
C39_WashCycleOrder ==
    /\ wgroup.n >= 2 => (wlists = <<>> /\ wcpc \in {"group", "batch"})
    /\ wgroup.n = 1 => wcpc # "batch"
    /\ \A i \in DOMAIN wlists :
          i <= 5 /\ wlists[i].by = CycleOrder[i] /\ wlists[i].at = CyclePlaces[i]
    /\ (wcpc = "done" /\ wgroup.n = 1 /\ wgroup.has_tip) =>
          /\ Len(wlists) = 5
          /\ EVols(wlists[1].cmds) = <<>>
          /\ EVols(wlists[2].cmds) = <<AIR_GAP_UL, AIR_GAP_UL + wgroup.vol>>
          /\ LET src == EVols(wlists[3].cmds)
             IN  /\ Len(src) >= 4
                 /\ src[1] = AIR_GAP_UL
                 /\ \A k \in 2..(Len(src) - 1) :
                       src[k] = IF k % 2 = 0 THEN AIR_GAP_UL + 200 ELSE AIR_GAP_UL
                 /\ src[Len(src) - 1] = AIR_GAP_UL
                 /\ src[Len(src)] > AIR_GAP_UL
          /\ LET dst == EVols(wlists[4].cmds)
             IN  Len(dst) = 2 /\ dst[1] < AIR_GAP_UL /\ dst[2] = AIR_GAP_UL
          /\ EVols(wlists[5].cmds) = <<>>
C39_Witness ==
    /\ wcpc = "done" /\ wgroup.n = 1 /\ wgroup.has_tip /\ Len(wlists) = 5
    /\ wgroup.vol = 100 * MaxWashHundreds
    /\ wgroup.src_mod # wgroup.dest_mod

\* C40: for a volatile transfer batch the source is pre-wetted three times:
\* three aspirate/dispense mix cycles are in the load list before the load
\* aspirate.
C40_ThreePreWetCycles ==
    (xpc \in {"loaded", "travelled", "done"} /\ xfer.is_volatile /\ lists # <<>>) =>
       LET e == EVols(SelectSeq(lists[1], LAMBDA l : l.axis = "E" /\ l # PipE))
       IN  e = <<AIR_GAP_UL + 500, AIR_GAP_UL, AIR_GAP_UL + 500, AIR_GAP_UL,
                 AIR_GAP_UL + 500, AIR_GAP_UL>>
====
